---------------------------- MODULE Spec2Model ----------------------------
(***************************************************************************)
(* A model of the proximity-query core of parry: the Voronoi simplex       *)
(* (query/gjk/voronoi_simplex3.rs), the GJK driver (query/gjk/gjk.rs) and  *)
(* the composite-shape distance visitor                                    *)
(* (query/distance/distance_composite_shape_shape.rs).                     *)
(*                                                                         *)
(* Reals are exact rationals <<n, d>> (d > 0, reduced); points and vectors *)
(* are triples of integers; arrays are sequences read with 0-based         *)
(* indices through At.                                                     *)
(***************************************************************************)
EXTENDS Integers, Sequences, FiniteSets, TLC

VARIABLES simplex, call, gjk, trav, epa, ray, isect

vars == <<simplex, call, gjk, trav, epa, ray, isect>>

----------------------------------------------------------------------------
(* Arithmetic *)

Abs(x) == IF x < 0 THEN -x ELSE x

(* F applied to the value of e. *)
With(e, F(_)) == CHOOSE y \in {F(x) : x \in {e}} : TRUE

RECURSIVE Gcd(_, _)
Gcd(a, b) == IF b = 0 THEN a ELSE With(a % b, LAMBDA r : Gcd(b, r))

(* The rational n/d, reduced, with a positive denominator. *)
Rat(n, d) ==
    With(Gcd(Abs(n), Abs(d)),
         LAMBDA g : IF d < 0 THEN <<(-n) \div g, (-d) \div g>>
                    ELSE <<n \div g, d \div g>>)

RZero == <<0, 1>>
ROne == <<1, 1>>
RLt(a, b) == a[1] * b[2] < b[1] * a[2]
RLe(a, b) == a[1] * b[2] <= b[1] * a[2]
RAdd(a, b) == Rat(a[1] * b[2] + b[1] * a[2], a[2] * b[2])

RECURSIVE RSum(_)
RSum(q) == IF q = <<>> THEN RZero ELSE RAdd(Head(q), RSum(Tail(q)))

Dot(u, v) == u[1] * v[1] + u[2] * v[2] + u[3] * v[3]
Cross(u, v) == <<u[2] * v[3] - u[3] * v[2],
                 u[3] * v[1] - u[1] * v[3],
                 u[1] * v[2] - u[2] * v[1]>>
VSub(u, v) == <<u[1] - v[1], u[2] - v[2], u[3] - v[3]>>
VAdd(u, v) == <<u[1] + v[1], u[2] + v[2], u[3] + v[3]>>
VScale(k, u) == <<k * u[1], k * u[2], k * u[3]>>
VNeg(u) == <<-u[1], -u[2], -u[3]>>
NormSq(u) == Dot(u, u)
Origin == <<0, 0, 0>>

(* A point with rational coordinates: the integer triple n over d. *)
RVec(n, d) ==
    With(n, LAMBDA v :
        With(Gcd(Gcd(Gcd(Abs(v[1]), Abs(v[2])), Abs(v[3])), Abs(d)),
             LAMBDA g : [n |-> <<v[1] \div g, v[2] \div g, v[3] \div g>>,
                         d |-> d \div g]))

(* 0-based reads and writes of an array held as a sequence. *)
At(q, i) == q[i + 1]
Put(q, i, x) == [q EXCEPT ![i + 1] = x]
SwapAt(q, i, j) == [q EXCEPT ![i + 1] = q[j + 1], ![j + 1] = q[i + 1]]

----------------------------------------------------------------------------
(* gjk::eps_tol: DEFAULT_EPSILON * 10, about 1e-6 for f32; eps_tol is     *)
(* 1 / EpsTolDen.  x < eps_tol for the rational x = n/d >= 0.             *)

EpsTolDen == 1000000

LtEpsTol(n, d) == n <= (d - 1) \div EpsTolDen


----------------------------------------------------------------------------
(* The point-projection primitives of the shapes module                    *)
(* (Segment / Triangle / Tetrahedron ::project_local_point_and_get_location*)
(* applied to the origin).  They answer with the projection and the        *)
(* Voronoi feature that holds it: a vertex, an edge with the weights of    *)
(* its two ends, a face with the weights of its three corners, or the      *)
(* interior of the tetrahedron.                                            *)

(* Edge and face numbering of the location tags, as vertex indices. *)
SegFeatures == <<<<0, 1>>>>
TriEdges == <<<<0, 1>>, <<1, 2>>, <<0, 2>>>>
TetEdges == <<<<0, 1>>, <<0, 2>>, <<0, 3>>, <<1, 2>>, <<1, 3>>, <<2, 3>>>>
TetFaces == <<<<0, 1, 2>>, <<0, 1, 3>>, <<0, 2, 3>>, <<1, 2, 3>>>>

(* Barycentric coordinates n[i]/d of the projection of the origin on the  *)
(* affine hull of pts (1 to 4 points); d = 0 when pts are dependent.      *)
Bary(pts) ==
    LET a == pts[1]
    IN  CASE Len(pts) = 1 -> [n |-> <<1>>, d |-> 1]
          [] Len(pts) = 2 ->
                LET ab == VSub(pts[2], a)
                    q == Dot(ab, ab)
                    t == -Dot(a, ab)
                IN  [n |-> <<q - t, t>>, d |-> q]
          [] Len(pts) = 3 ->
                LET ab == VSub(pts[2], a)
                    ac == VSub(pts[3], a)
                    g11 == Dot(ab, ab)
                    g12 == Dot(ab, ac)
                    g22 == Dot(ac, ac)
                    r1 == -Dot(a, ab)
                    r2 == -Dot(a, ac)
                    det == g11 * g22 - g12 * g12
                    vn == r1 * g22 - r2 * g12
                    wn == g11 * r2 - g12 * r1
                IN  [n |-> <<det - vn - wn, vn, wn>>, d |-> det]
          [] OTHER ->
                LET ab == VSub(pts[2], a)
                    ac == VSub(pts[3], a)
                    ad == VSub(pts[4], a)
                    o == VNeg(a)
                    det == Dot(ab, Cross(ac, ad))
                    sg == IF det < 0 THEN -1 ELSE 1
                    un == sg * Dot(o, Cross(ac, ad))
                    vn == sg * Dot(ab, Cross(o, ad))
                    wn == sg * Dot(ab, Cross(ac, o))
                IN  [n |-> <<sg * det - un - vn - wn, un, vn, wn>>, d |-> sg * det]

RECURSIVE WeightedSum(_, _)
WeightedSum(ns, pts) ==
    IF ns = <<>> THEN Origin
    ELSE VAdd(VScale(Head(ns), Head(pts)), WeightedSum(Tail(ns), Tail(pts)))

SubPts(pts, idx) == [k \in 1..Len(idx) |-> At(pts, idx[k])]

(* The features of a simplex of m + 1 vertices: ascending index lists. *)
Features(m) ==
    {f \in UNION {[1..k -> 0..m] : k \in 1..(m + 1)} :
        \A k \in 1..(Len(f) - 1) : f[k] < f[k + 1]}

(* idx is the feature whose relative interior holds the point of the      *)
(* simplex closest to the origin: the projection p on its affine hull has *)
(* positive weights, and no other vertex lies below the plane through p   *)
(* with normal p.                                                          *)
IsClosestFeature(pts, idx) ==
    \E sub \in {SubPts(pts, idx)} : \E b \in {Bary(sub)} :
    \E nn \in {WeightedSum(b.n, sub)} : \E nn2 \in {Dot(nn, nn)} :
        /\ b.d > 0
        /\ \A k \in 1..Len(idx) : b.n[k] > 0
        /\ \A j \in 1..Len(pts) : b.d * Dot(nn, pts[j]) >= nn2

ClosestFeature(pts) ==
    With({f \in Features(Len(pts) - 1) : IsClosestFeature(pts, f)},
         LAMBDA fs : IF fs = {} THEN <<0>> ELSE CHOOSE f \in fs : TRUE)

FeatureCoords(pts, idx) ==
    With(Bary(SubPts(pts, idx)),
         LAMBDA b : [k \in 1..Len(idx) |-> Rat(b.n[k], b.d)])

FeaturePoint(pts, idx) ==
    With(SubPts(pts, idx),
         LAMBDA sub : With(Bary(sub), LAMBDA b : RVec(WeightedSum(b.n, sub), b.d)))

IndexOf(table, idx) == (CHOOSE e \in 1..Len(table) : table[e] = idx) - 1

OnVertex(i) == [kind |-> "OnVertex", id |-> i, coords |-> <<>>]
OnEdge(i, coords) == [kind |-> "OnEdge", id |-> i, coords |-> coords]
OnFace(i, coords) == [kind |-> "OnFace", id |-> i, coords |-> coords]
OnSolid == [kind |-> "OnSolid", id |-> 0, coords |-> <<>>]

(* The location tag of feature idx of a simplex of dimension m. *)
LocationOf(pts, idx) ==
    CASE Len(idx) = 1 -> OnVertex(idx[1])
      [] Len(idx) = 2 ->
            OnEdge(IndexOf(CASE Len(pts) = 2 -> SegFeatures
                             [] Len(pts) = 3 -> TriEdges
                             [] OTHER -> TetEdges, idx),
                   FeatureCoords(pts, idx))
      [] Len(idx) = 3 ->
            OnFace(IF Len(pts) = 3 THEN 0 ELSE IndexOf(TetFaces, idx),
                   FeatureCoords(pts, idx))
      [] OTHER -> OnSolid

(* Segment::project_local_point_and_get_location(origin, true) *)
Segment_project(a, b) ==
    With(<<a, b>>,
         LAMBDA pts : With(ClosestFeature(pts),
                           LAMBDA f : [proj |-> FeaturePoint(pts, f),
                                       location |-> LocationOf(pts, f)]))

(* Triangle::project_local_point_and_get_location(origin, true) *)
Triangle_project(a, b, c) ==
    With(<<a, b, c>>,
         LAMBDA pts : With(ClosestFeature(pts),
                           LAMBDA f : [proj |-> FeaturePoint(pts, f),
                                       location |-> LocationOf(pts, f)]))

(* Tetrahedron::project_local_point_and_get_location(origin, true) *)
Tetrahedron_project(a, b, c, d) ==
    With(<<a, b, c, d>>,
         LAMBDA pts : With(ClosestFeature(pts),
                           LAMBDA f : [proj |-> FeaturePoint(pts, f),
                                       location |-> LocationOf(pts, f)]))

----------------------------------------------------------------------------
(* CSOPoint: a point of the Minkowski difference with the two points of   *)
(* the shapes it comes from.                                               *)

CSOPoint(p, p1, p2) == [point |-> p, orig1 |-> p1, orig2 |-> p2]
CSOPoint_origin == CSOPoint(Origin, Origin, Origin)
CSOPoint_single_point(p) == CSOPoint(p, p, Origin)

----------------------------------------------------------------------------
(* VoronoiSimplex *)

(* A call that ends in a panic returns this. *)
Panic == "panic"

(* VoronoiSimplex::new *)
new ==
    [prev_vertices |-> <<0, 1, 2, 3>>,
     prev_proj |-> <<RZero, RZero, RZero>>,
     prev_dim |-> 0,
     vertices |-> <<CSOPoint_origin, CSOPoint_origin, CSOPoint_origin, CSOPoint_origin>>,
     proj |-> <<RZero, RZero, RZero>>,
     dim |-> 0]

(* VoronoiSimplex::swap *)
swap(s, i1, i2) ==
    [s EXCEPT !.vertices = SwapAt(s.vertices, i1, i2),
              !.prev_vertices = SwapAt(s.prev_vertices, i1, i2)]

(* VoronoiSimplex::reset *)
reset(s, pt) ==
    [s EXCEPT !.dim = 0, !.prev_dim = 0, !.vertices = Put(s.vertices, 0, pt)]

(* The rejection test of add_point for the dimension at entry. *)
add_point_rejects(s, pt) ==
    LET v0 == At(s.vertices, 0).point
    IN  CASE s.dim = 0 -> LtEpsTol(NormSq(VSub(v0, pt.point)), 1)
          [] s.dim = 1 ->
                LET ab == VSub(At(s.vertices, 1).point, v0)
                    ac == VSub(pt.point, v0)
                IN  LtEpsTol(NormSq(Cross(ab, ac)), 1)
          [] OTHER ->
                LET ab == VSub(At(s.vertices, 1).point, v0)
                    ac == VSub(At(s.vertices, 2).point, v0)
                    ap == VSub(pt.point, v0)
                    n == Cross(ab, ac)
                    nap == Abs(Dot(n, ap))
                IN  \* |n . ap| / |n| < eps_tol; a zero n normalizes to NaN,
                    \* and no comparison with NaN holds.
                    /\ NormSq(n) > 0
                    /\ nap * nap <= ((NormSq(n) - 1) \div EpsTolDen) \div EpsTolDen

(* add_point as it would be if the mirror's vertex mapping were not reset. *)
add_point_keeps_mapping(s, pt) ==
    LET saved == [s EXCEPT !.prev_dim = s.dim, !.prev_proj = s.proj]
    IN  IF s.dim > 2 THEN [s |-> saved, ret |-> Panic]
        ELSE IF add_point_rejects(s, pt) THEN [s |-> saved, ret |-> "false"]
        ELSE [s |-> [saved EXCEPT !.dim = s.dim + 1,
                                  !.vertices = Put(s.vertices, s.dim + 1, pt)],
              ret |-> "true"]

(* add_point as it would be if a full simplex refused the point by        *)
(* returning false.                                                        *)
add_point_full_returns_false(s, pt) ==
    LET saved == [s EXCEPT !.prev_dim = s.dim,
                           !.prev_proj = s.proj,
                           !.prev_vertices = <<0, 1, 2, 3>>]
    IN  IF s.dim > 2 \/ add_point_rejects(s, pt) THEN [s |-> saved, ret |-> "false"]
        ELSE [s |-> [saved EXCEPT !.dim = s.dim + 1,
                                  !.vertices = Put(s.vertices, s.dim + 1, pt)],
              ret |-> "true"]

(* VoronoiSimplex::add_point: the simplex it leaves and what it returns. *)
add_point(s, pt) ==
    LET saved == [s EXCEPT !.prev_dim = s.dim,
                           !.prev_proj = s.proj,
                           !.prev_vertices = <<0, 1, 2, 3>>]
    IN  IF s.dim > 2 THEN [s |-> saved, ret |-> Panic]
        ELSE IF add_point_rejects(s, pt) THEN [s |-> saved, ret |-> "false"]
        ELSE [s |-> [saved EXCEPT !.dim = s.dim + 1,
                                  !.vertices = Put(s.vertices, s.dim + 1, pt)],
              ret |-> "true"]

(* What an accessor answers: a value, or a panic (a failed assertion or  *)
(* an index past the end of the array).                                   *)
Value(x) == [ok |-> TRUE, val |-> x]
Panicked == [ok |-> FALSE, val |-> Panic]

(* VoronoiSimplex::proj_coord: the assertion, then the read of a [Real; 3]. *)
proj_coord(s, i) ==
    IF i <= s.dim /\ i < Len(s.proj) THEN Value(At(s.proj, i)) ELSE Panicked

(* VoronoiSimplex::point *)
point(s, i) == IF i <= s.dim THEN Value(At(s.vertices, i)) ELSE Panicked

(* VoronoiSimplex::prev_proj_coord *)
prev_proj_coord(s, i) ==
    IF i <= s.prev_dim /\ i < Len(s.prev_proj)
    THEN Value(At(s.prev_proj, i)) ELSE Panicked

(* VoronoiSimplex::prev_point *)
prev_point(s, i) ==
    IF i <= s.prev_dim THEN Value(At(s.vertices, At(s.prev_vertices, i)))
    ELSE Panicked

(* VoronoiSimplex::dimension *)
dimension(s) == s.dim

(* VoronoiSimplex::prev_dimension *)
prev_dimension(s) == s.prev_dim

SetProj2(s, w0, w1) == [s EXCEPT !.proj = Put(Put(s.proj, 0, w0), 1, w1)]
SetProj1(s) == [s EXCEPT !.proj = Put(s.proj, 0, ROne), !.dim = 0]

(* Dimension 1 as it would be if OnVertex(1) did not swap the vertices. *)
reduce_segment_no_swap(s) ==
    With(Segment_project(At(s.vertices, 0).point, At(s.vertices, 1).point),
         LAMBDA r :
        [ret |-> r.proj,
         s |-> CASE r.location.kind = "OnVertex" -> SetProj1(s)
                 [] OTHER -> SetProj2(s, r.location.coords[1],
                                      r.location.coords[2])])

(* project_origin_and_reduce, dimension 1 *)
reduce_segment(s) ==
    With(Segment_project(At(s.vertices, 0).point, At(s.vertices, 1).point),
         LAMBDA r :
        [ret |-> r.proj,
         s |-> CASE r.location.kind = "OnVertex" /\ r.location.id = 0 -> SetProj1(s)
                 [] r.location.kind = "OnVertex" /\ r.location.id = 1 ->
                        SetProj1(swap(s, 0, 1))
                 [] OTHER -> SetProj2(s, r.location.coords[1],
                                      r.location.coords[2])])

(* Dimension 2 as it would be if OnEdge(1) stored the weights unswapped. *)
reduce_triangle_weights_unswapped(s) ==
    With(Triangle_project(At(s.vertices, 0).point, At(s.vertices, 1).point,
                          At(s.vertices, 2).point),
         LAMBDA r :
        LET loc == r.location
            c == loc.coords
        IN
        [ret |-> r.proj,
         s |-> CASE loc.kind = "OnVertex" -> SetProj1(swap(s, 0, loc.id))
                 [] loc.kind = "OnEdge" /\ loc.id = 0 ->
                        [SetProj2(s, c[1], c[2]) EXCEPT !.dim = 1]
                 [] loc.kind = "OnEdge" /\ loc.id = 1 ->
                        [SetProj2(swap(s, 0, 2), c[1], c[2]) EXCEPT !.dim = 1]
                 [] loc.kind = "OnEdge" /\ loc.id = 2 ->
                        [SetProj2(swap(s, 1, 2), c[1], c[2]) EXCEPT !.dim = 1]
                 [] loc.kind = "OnFace" -> [s EXCEPT !.proj = c]
                 [] OTHER -> s])

(* project_origin_and_reduce, dimension 2 *)
reduce_triangle(s) ==
    With(Triangle_project(At(s.vertices, 0).point, At(s.vertices, 1).point,
                          At(s.vertices, 2).point),
         LAMBDA r :
        LET loc == r.location
            c == loc.coords
        IN
        [ret |-> r.proj,
         s |-> CASE loc.kind = "OnVertex" -> SetProj1(swap(s, 0, loc.id))
                 [] loc.kind = "OnEdge" /\ loc.id = 0 ->
                        [SetProj2(s, c[1], c[2]) EXCEPT !.dim = 1]
                 [] loc.kind = "OnEdge" /\ loc.id = 1 ->
                        [SetProj2(swap(s, 0, 2), c[2], c[1]) EXCEPT !.dim = 1]
                 [] loc.kind = "OnEdge" /\ loc.id = 2 ->
                        [SetProj2(swap(s, 1, 2), c[1], c[2]) EXCEPT !.dim = 1]
                 [] loc.kind = "OnFace" -> [s EXCEPT !.proj = c]
                 [] OTHER -> s])

(* The swaps of the OnEdge arm of dimension 3. *)
tetra_edge_swap(s, i) ==
    CASE i = 0 -> s
      [] i = 1 -> swap(s, 1, 2)
      [] i = 2 -> swap(s, 1, 3)
      [] i = 3 -> swap(s, 0, 2)
      [] i = 4 -> swap(s, 0, 3)
      [] OTHER -> swap(swap(s, 0, 2), 1, 3)

(* The OnFace arm of dimension 3. *)
tetra_face(s, i, c) ==
    LET v3 == At(s.vertices, 3)
    IN  CASE i = 0 -> [s EXCEPT !.proj = c, !.dim = 2]
          [] i = 1 -> [s EXCEPT !.vertices = Put(s.vertices, 2, v3),
                                !.proj = c, !.dim = 2]
          [] i = 2 -> [s EXCEPT !.vertices = Put(s.vertices, 1, v3),
                                !.proj = <<c[1], c[3], c[2]>>, !.dim = 2]
          [] OTHER -> [s EXCEPT !.vertices = Put(s.vertices, 0, v3),
                                !.proj = <<c[3], c[1], c[2]>>, !.dim = 2]

(* project_origin_and_reduce, dimension 3 *)
reduce_tetrahedron(s) ==
    With(Tetrahedron_project(At(s.vertices, 0).point, At(s.vertices, 1).point,
                             At(s.vertices, 2).point, At(s.vertices, 3).point),
         LAMBDA r :
        LET loc == r.location
            c == loc.coords
        IN
        [ret |-> r.proj,
         s |-> CASE loc.kind = "OnVertex" -> SetProj1(swap(s, 0, loc.id))
                 [] loc.kind = "OnEdge" ->
                        IF loc.id \in {3, 4}
                        THEN [SetProj2(tetra_edge_swap(s, loc.id), c[2], c[1])
                                EXCEPT !.dim = 1]
                        ELSE [SetProj2(tetra_edge_swap(s, loc.id), c[1], c[2])
                                EXCEPT !.dim = 1]
                 [] loc.kind = "OnFace" -> tetra_face(s, loc.id, c)
                 [] OTHER -> s])

(* VoronoiSimplex::project_origin_and_reduce: the simplex it leaves and   *)
(* the projection it returns.                                              *)
project_origin_and_reduce(s) ==
    CASE s.dim = 0 ->
            [ret |-> RVec(At(s.vertices, 0).point, 1),
             s |-> [s EXCEPT !.proj = Put(s.proj, 0, ROne)]]
      [] s.dim = 1 -> reduce_segment(s)
      [] s.dim = 2 -> reduce_triangle(s)
      [] OTHER -> reduce_tetrahedron(s)

----------------------------------------------------------------------------
(* The simplex driven through its public operations.  call records the   *)
(* last operation: its argument, what it returned (ret, and proj for a    *)
(* projection), the Voronoi location its projection found, the simplex    *)
(* it started from (pre), and the same for the operation before it.       *)

Idle == "idle"

(* The number of operations applied to a seeded simplex in one run. *)
MaxCalls == 5

(* The support points handed to the simplex. *)
SimplexPts ==
    {CSOPoint_single_point(p) :
        p \in {<<-1, 1, 2>>, <<0, -1, 0>>, <<0, 0, 1>>, <<0, 1, -1>>,
               <<0, 1, 2>>, <<1, 1, 1>>}}

NoLocation == [kind |-> "none", id |-> 0, coords |-> <<>>]
NoProj == RVec(Origin, 1)

(* A simplex as its users hold it: constructed, then seeded with one      *)
(* support point by reset.                                                 *)
SimplexInit ==
    /\ \E pt \in SimplexPts :
          /\ simplex = reset(new, pt)
          /\ call = [n |-> 0, op |-> "reset", arg |-> pt, ret |-> "none",
                     proj |-> NoProj, loc |-> NoLocation, pre |-> new,
                     prevop |-> "new", prevret |-> "none", prevproj |-> NoProj,
                     pre2 |-> new]
    /\ isect = Idle
    /\ gjk = Idle
    /\ trav = Idle
    /\ epa = Idle
    /\ ray = Idle

Record(op, arg, ret, proj, loc) ==
    [n |-> call.n + 1, op |-> op, arg |-> arg, ret |-> ret, proj |-> proj, loc |-> loc,
     pre |-> simplex, prevop |-> call.op, prevret |-> call.ret,
     prevproj |-> call.proj, pre2 |-> call.pre]

CanCall == call.ret # Panic /\ call.n < MaxCalls

Reset(pt) ==
    /\ CanCall
    /\ simplex' = reset(simplex, pt)
    /\ call' = Record("reset", pt, "none", NoProj, NoLocation)
    /\ UNCHANGED <<gjk, trav, epa, ray, isect>>

AddPoint(pt) ==
    /\ CanCall
    /\ \E r \in {add_point(simplex, pt)} :
          /\ simplex' = r.s
          /\ call' = Record("add_point", pt, r.ret, NoProj, NoLocation)
    /\ UNCHANGED <<gjk, trav, epa, ray, isect>>

(* The location the projection primitive answers for simplex s. *)
location(s) ==
    CASE s.dim = 1 ->
            Segment_project(At(s.vertices, 0).point, At(s.vertices, 1).point).location
      [] s.dim = 2 ->
            Triangle_project(At(s.vertices, 0).point, At(s.vertices, 1).point,
                             At(s.vertices, 2).point).location
      [] s.dim = 3 ->
            Tetrahedron_project(At(s.vertices, 0).point, At(s.vertices, 1).point,
                                At(s.vertices, 2).point, At(s.vertices, 3).point).location
      [] OTHER -> NoLocation

ProjectOriginAndReduce ==
    /\ CanCall
    /\ \E r \in {project_origin_and_reduce(simplex)} :
          /\ simplex' = r.s
          /\ call' = Record("reduce", CSOPoint_origin, "point", r.ret,
                            location(simplex))
    /\ UNCHANGED <<gjk, trav, epa, ray, isect>>

SimplexNext ==
    \/ \E pt \in SimplexPts : Reset(pt)
    \/ \E pt \in SimplexPts : AddPoint(pt)
    \/ ProjectOriginAndReduce

SpecSimplex == SimplexInit /\ [][SimplexNext]_vars

----------------------------------------------------------------------------
(* Properties of the simplex *)

Identity == <<0, 1, 2, 3>>

SameVertices(s1, s2, k) == \A i \in 0..k : At(s1.vertices, i) = At(s2.vertices, i)

(* The vertex indices of the feature a location tag names, for a simplex  *)
(* of dimension m.                                                         *)
TagFeature(m, loc) ==
    CASE loc.kind = "OnVertex" -> <<loc.id>>
      [] loc.kind = "OnEdge" ->
            At(CASE m = 1 -> SegFeatures [] m = 2 -> TriEdges [] OTHER -> TetEdges,
               loc.id)
      [] loc.kind = "OnFace" -> IF m = 2 THEN <<0, 1, 2>> ELSE At(TetFaces, loc.id)
      [] OTHER -> [k \in 1..(m + 1) |-> k - 1]

(* C5: after add_point on a simplex of dimension k and then               *)
(* project_origin_and_reduce, prev_dimension() = k and prev_point(i),     *)
(* prev_proj_coord(i) are the vertices and weights the simplex had when   *)
(* add_point was entered, for every i <= k, whichever feature the         *)
(* reduction selected.                                                     *)
C5_PrevMirrorFaithful ==
    (call.op = "reduce" /\ call.prevop = "add_point") =>
        LET e == call.pre2
        IN  /\ prev_dimension(simplex) = e.dim
            /\ \A i \in 0..e.dim :
                  /\ prev_point(simplex, i) = Value(At(e.vertices, i))
                  /\ i < 3 => prev_proj_coord(simplex, i) = Value(At(e.proj, i))

(* A vector of rationals: c * u and the sum of the vectors of q. *)
RScale(c, u) == <<Rat(c[1] * u[1], c[2]), Rat(c[1] * u[2], c[2]), Rat(c[1] * u[3], c[2])>>
RECURSIVE RVSum(_)
RVSum(q) ==
    IF q = <<>> THEN <<RZero, RZero, RZero>>
    ELSE With(RVSum(Tail(q)), LAMBDA r :
            <<RAdd(Head(q)[1], r[1]), RAdd(Head(q)[2], r[2]), RAdd(Head(q)[3], r[3])>>)

(* gjk::result: the witness pair of the simplex, from the mirror when     *)
(* prev is set; an accessor that panics makes the call panic.             *)
gjk_result(s, prev) ==
    LET m == IF prev THEN prev_dimension(s) ELSE dimension(s)
        coord(i) == IF prev THEN prev_proj_coord(s, i) ELSE proj_coord(s, i)
        pnt(i) == IF prev THEN prev_point(s, i) ELSE point(s, i)
    IN  IF \E i \in 0..m : ~coord(i).ok \/ ~pnt(i).ok THEN Panicked
        ELSE Value(<<RVSum([k \in 1..(m + 1) |->
                              RScale(coord(k - 1).val, pnt(k - 1).val.orig1)]),
                     RVSum([k \in 1..(m + 1) |->
                              RScale(coord(k - 1).val, pnt(k - 1).val.orig2)])>>)

C6_ReducedToTaggedFeature ==
    (call.op = "reduce" /\ call.pre.dim > 0) =>
        LET e == call.pre
            f == TagFeature(e.dim, call.loc)
        IN  /\ simplex.dim = Len(f) - 1
            /\ {At(simplex.vertices, i) : i \in 0..simplex.dim}
                 = {At(e.vertices, f[k]) : k \in 1..Len(f)}
            /\ call.loc.kind = "OnVertex" => At(simplex.proj, 0) = ROne
            /\ call.loc.kind \in {"OnEdge", "OnFace"} =>
                  \A k \in 1..Len(f) : \E i \in 0..simplex.dim :
                      /\ At(simplex.vertices, i) = At(e.vertices, f[k])
                      /\ At(simplex.proj, i) = call.loc.coords[k]

C6_Witness ==
    /\ call.op = "reduce"
    /\ call.pre.dim = 3
    /\ call.loc.kind = "OnEdge"
    /\ call.loc.id = 5
    /\ At(simplex.proj, 0) # At(simplex.proj, 1)

(* C7: after project_origin_and_reduce, proj_coord(i) is defined for      *)
(* every i in 0..=dimension(), is >= 0, and the weights sum to 1.         *)
C7_WeightsDefinedAndConvex ==
    call.op = "reduce" =>
        /\ \A i \in 0..simplex.dim :
              /\ proj_coord(simplex, i).ok
              /\ RLe(RZero, proj_coord(simplex, i).val)
        /\ RSum([i \in 1..(simplex.dim + 1) |-> proj_coord(simplex, i - 1).val]) = ROne

(* C8: a second project_origin_and_reduce right after a first returns the *)
(* same projection and leaves the dimension, the vertices 0..=dim and the *)
(* stored weights as the first call left them.                             *)
C8_ReduceIdempotent ==
    (call.op = "reduce" /\ call.prevop = "reduce") =>
        /\ call.proj = call.prevproj
        /\ simplex.dim = call.pre.dim
        /\ SameVertices(simplex, call.pre, simplex.dim)
        /\ \A i \in 0..simplex.dim :
              i < 3 => At(simplex.proj, i) = At(call.pre.proj, i)

C8_Witness ==
    /\ call.op = "reduce"
    /\ call.prevop = "reduce"
    /\ call.pre2.dim = 3
    /\ call.pre.dim = 2
    /\ call.pre.vertices # call.pre2.vertices

(* The points of vertices[0..=k] and pt are affinely dependent. *)
Dependent(s, pt) ==
    LET v0 == At(s.vertices, 0).point
        ap == VSub(pt.point, v0)
    IN  CASE s.dim = 0 -> ap = Origin
          [] s.dim = 1 -> Cross(VSub(At(s.vertices, 1).point, v0), ap) = Origin
          [] OTHER -> Dot(Cross(VSub(At(s.vertices, 1).point, v0),
                                VSub(At(s.vertices, 2).point, v0)), ap) = 0

(* C9: add_point on a simplex of dimension k < 3 first overwrites the     *)
(* prev_* mirror with the state at entry; then it either rejects a point  *)
(* on the affine hull of the vertices, leaving dimension, vertices and    *)
(* proj unchanged, or accepts: dimension k + 1, vertices[k + 1] = pt,     *)
(* vertices[0..=k] unchanged.                                              *)
C9_AddPointFrame ==
    (call.op = "add_point" /\ call.pre.dim < 3) =>
        LET e == call.pre
        IN  /\ simplex.prev_dim = e.dim
            /\ simplex.prev_proj = e.proj
            /\ simplex.prev_vertices = Identity
            /\ simplex.proj = e.proj
            /\ SameVertices(simplex, e, e.dim)
            /\ IF Dependent(e, call.arg)
               THEN /\ call.ret = "false"
                    /\ simplex.dim = e.dim
                    /\ simplex.vertices = e.vertices
               ELSE /\ call.ret = "true"
                    /\ simplex.dim = e.dim + 1
                    /\ At(simplex.vertices, e.dim + 1) = call.arg

C9_Witness ==
    /\ call.op = "add_point"
    /\ call.pre.dim = 1
    /\ call.ret = "false"
    /\ call.pre.prev_vertices # Identity
    /\ call.arg \notin {At(call.pre.vertices, i) : i \in 0..1}

(* C10 as claimed: add_point on a simplex of dimension 3 fails by         *)
(* returning false, with the dimension and the vertices left as they were.*)
C10_AddPointFullReturnsFalse ==
    (call.op = "add_point" /\ call.pre.dim = 3) =>
        /\ call.ret = "false"
        /\ simplex.dim = call.pre.dim
        /\ simplex.vertices = call.pre.vertices

(* C10 as amended: add_point on a simplex of dimension 3 panics; the      *)
(* point is not added and the dimension and the vertices are left as they *)
(* were, while the prev_* mirror is overwritten.                           *)
C10_AddPointFullPanics ==
    (call.op = "add_point" /\ call.pre.dim = 3) =>
        /\ call.ret = Panic
        /\ simplex.dim = call.pre.dim
        /\ simplex.vertices = call.pre.vertices
        /\ simplex.prev_dim = 3
        /\ simplex.prev_vertices = Identity

C10_Witness ==
    /\ call.op = "add_point"
    /\ call.pre.dim = 3
    /\ call.prevop = "reduce"
    /\ call.arg \notin {At(call.pre.vertices, i) : i \in 0..3}

(* C30: after reset(pt), whatever calls came before it, the simplex is    *)
(* as a new one seeded with pt: dimension() = 0, prev_dimension() = 0,    *)
(* point(0) = pt and prev_point(0) = pt.                                  *)
C30_ResetErasesHistory ==
    call.op = "reset" =>
        /\ dimension(simplex) = 0
        /\ prev_dimension(simplex) = 0
        /\ point(simplex, 0) = Value(call.arg)
        /\ prev_point(simplex, 0) = Value(call.arg)

----------------------------------------------------------------------------
(* GJK: closest_points and project_origin.                                *)
(*                                                                         *)
(* The shapes are any implementations of the support map, so the support  *)
(* point of an iteration, and with it the projection the simplex answers, *)
(* are inputs.  Of the geometry the loop reads only lengths: the norm of  *)
(* the projection (max_bound), the support value -dir . p (min_bound),    *)
(* max_dist; they are counted in multiples of eps_tol.  A direction is    *)
(* named by where it comes from.                                           *)

(* eps_tol, in multiples of eps_tol. *)
EpsTol == 1
(* _eps_rel = sqrt(eps_tol) = 1 / EpsRelDen *)
EpsRelDen == 1000
(* Real::max_value() *)
RealMax == 2147483647
(* The iteration cap of closest_points. *)
MaxIter == 100
DIM == 3

(* The largest norm of a first projection. *)
MaxNorm == 104
(* The finite max_dist of a query. *)
MaxDist == 50

NoDir == [axis |-> "none", iter |-> 0]
(* The unit vector of -proj at the beginning of iteration k. *)
ProjDir(k) == [axis |-> "proj", iter |-> k]
x_axis == [axis |-> "x", iter |-> 0]

(* GJKResult; pts tells which simplex the witness points come from. *)
Intersection == [kind |-> "Intersection", dir |-> NoDir, pts |-> "none"]
ClosestPoints(pts, d) == [kind |-> "ClosestPoints", dir |-> d, pts |-> pts]
Proximity(d) == [kind |-> "Proximity", dir |-> d, pts |-> "none"]
NoIntersection(d) == [kind |-> "NoIntersection", dir |-> d, pts |-> "none"]
NoResult == [kind |-> "none", dir |-> NoDir, pts |-> "none"]

(* closest_points returns res. *)
Return(g, res) == [g EXCEPT !.result = res, !.pc = "done"]

(* What an exit that found the origin outside returns, by mode. *)
ByMode(g, pts, d) == IF g.exact_dist THEN ClosestPoints(pts, d) ELSE Proximity(d)

(* The test on the first projection as it would be with the tolerance of *)
(* the loop's test.                                                       *)
closest_points_entry_eps_tol(g, n, d) ==
    IF n > EpsTol
    THEN [g EXCEPT !.proj = n, !.dim = d, !.old_dir = ProjDir(0),
                   !.max_bound = RealMax, !.niter = 0, !.pc = "loop"]
    ELSE Return([g EXCEPT !.proj = n, !.dim = d], Intersection)

(* closest_points up to the loop: n is the norm of the first projection   *)
(* and d the dimension the simplex is reduced to.                          *)
closest_points_entry(g, n, d) ==
    IF n > 0
    THEN [g EXCEPT !.proj = n, !.dim = d, !.old_dir = ProjDir(0),
                   !.max_bound = RealMax, !.niter = 0, !.pc = "loop"]
    ELSE Return([g EXCEPT !.proj = n, !.dim = d], Intersection)

(* The far test as it would be if it were not strict. *)
too_far_or_equal(min_bound, max_dist) == min_bound >= max_dist

(* min_bound > max_dist *)
too_far(min_bound, max_dist) == min_bound > max_dist

(* max_bound - min_bound <= _eps_rel * max_bound *)
converged(max_bound, min_bound) == EpsRelDen * (max_bound - min_bound) <= max_bound

(* The refused-point exit as it would be if it ignored the mode. *)
refused_point_exact(g, dir) == ClosestPoints("current", dir)

(* The exit taken when add_point refuses the support point. *)
refused_point(g, dir) == ByMode(g, "current", dir)

(* The cap as it would be if it were tested like the one of the EPA. *)
iteration_cap_late(niter) == niter > MaxIter

(* niter == 100, tested after the increment that ends an iteration. *)
iteration_cap(niter) == niter = MaxIter

(* One iteration of the loop of closest_points.  min_bound is the support *)
(* value of the point the shapes answer for dir, accepted what add_point  *)
(* returns for it, n and d the norm of the next projection and the        *)
(* dimension the simplex is reduced to.                                    *)
closest_points_iter(g, min_bound, accepted, n, d) ==
    LET old_max_bound == g.max_bound
        dir == ProjDir(g.niter)
        max_bound == g.proj
        g1 == [g EXCEPT !.dir = dir, !.max_bound = max_bound]
        g2 == [g1 EXCEPT !.min_bound = min_bound, !.queries = @ + 1]
        g3 == [g2 EXCEPT !.old_dir = dir, !.proj = n, !.dim = d]
        g4 == [g3 EXCEPT !.niter = g.niter + 1]
    IN  IF ~(g.proj > EpsTol) THEN Return(g, Intersection)
        ELSE IF max_bound >= old_max_bound
            THEN Return(g1, ByMode(g, "prev", g.old_dir))
        ELSE IF too_far(min_bound, g.max_dist)
            THEN Return(g2, NoIntersection(dir))
        ELSE IF ~g.exact_dist /\ min_bound > 0 /\ max_bound <= g.max_dist
            THEN Return(g2, Proximity(g.old_dir))
        ELSE IF converged(max_bound, min_bound)
            THEN Return(g2, ByMode(g, "current", dir))
        ELSE IF ~accepted
            THEN Return(g2, refused_point(g, dir))
        ELSE IF d = DIM
            THEN IF min_bound >= EpsTol
                 THEN Return(g3, ByMode(g, "prev", dir))
                 ELSE Return(g3, Intersection)
        ELSE IF iteration_cap(g4.niter)
            THEN Return(g4, NoIntersection(x_axis))
        ELSE g4

(* project_origin: what it makes of the result of closest_points. *)
project_origin(res) ==
    CASE res.kind = "Intersection" -> "None"
      [] res.kind = "ClosestPoints" -> "Some"
      [] OTHER -> Panic

(* The simplex and the call record are not part of a GJK run's state. *)
NoCall ==
    [n |-> 0, op |-> "none", arg |-> CSOPoint_origin, ret |-> "none",
     proj |-> NoProj, loc |-> NoLocation, pre |-> new,
     prevop |-> "none", prevret |-> "none", prevproj |-> NoProj, pre2 |-> new]

(* A query: closest_points in either mode with a finite or no max_dist,   *)
(* or project_origin, which asks for exact_dist with Real::max_value().   *)
GJKInit ==
    /\ simplex = new
    /\ call = NoCall
    /\ isect = Idle
    /\ trav = Idle
    /\ epa = Idle
    /\ ray = Idle
    /\ \E caller \in {"closest_points", "project_origin"} :
       \E exact \in BOOLEAN, maxd \in {MaxDist, RealMax} :
          /\ caller = "project_origin" => exact /\ maxd = RealMax
          /\ gjk = [pc |-> "entry", caller |-> caller, exact_dist |-> exact,
                    max_dist |-> maxd, proj |-> 0, dim |-> 0,
                    old_dir |-> NoDir, dir |-> NoDir,
                    max_bound |-> RealMax, min_bound |-> 0, niter |-> 0,
                    queries |-> 0, result |-> NoResult, ret |-> "none"]

(* The norms a first projection is given. *)
EntryNorms == {0, 1, 2, MaxNorm}

(* The support values given to an iteration whose upper bound is b. *)
MinBounds(b) == {0, 1, b - 1, b, b + 1}

(* The norms given to the projection that follows one of norm b. *)
NextNorms(b) == {0, 1, b - 1, b, b + 1} \cap Nat

GJKEnter ==
    /\ gjk.pc = "entry"
    /\ \E n \in EntryNorms, d \in 0..(DIM - 1) :
          gjk' = closest_points_entry(gjk, n, d)
    /\ UNCHANGED <<simplex, call, trav, epa, ray, isect>>

GJKIterate ==
    /\ gjk.pc = "loop"
    /\ \E min_bound \in MinBounds(gjk.proj), accepted \in BOOLEAN,
          n \in NextNorms(gjk.proj), d \in 0..DIM :
          gjk' = closest_points_iter(gjk, min_bound, accepted, n, d)
    /\ UNCHANGED <<simplex, call, trav, epa, ray, isect>>

ProjectOriginReturn ==
    /\ gjk.pc = "done"
    /\ gjk.caller = "project_origin"
    /\ gjk' = [gjk EXCEPT !.ret = project_origin(gjk.result), !.pc = "returned"]
    /\ UNCHANGED <<simplex, call, trav, epa, ray, isect>>

GJKNext == GJKEnter \/ GJKIterate \/ ProjectOriginReturn

SpecGJK == GJKInit /\ [][GJKNext]_vars

(* C2: closest_points respects its mode on every exit: with exact_dist it *)
(* never returns Proximity, without it never ClosestPoints.               *)
C2_ModeRespected ==
    gjk.pc \in {"done", "returned"} =>
        /\ gjk.exact_dist => gjk.result.kind # "Proximity"
        /\ ~gjk.exact_dist => gjk.result.kind # "ClosestPoints"

C2_Witness ==
    /\ gjk.pc = "done"
    /\ ~gjk.exact_dist
    /\ gjk.result.kind = "Proximity"
    /\ gjk.niter > 0
    /\ gjk.min_bound < gjk.max_bound
    /\ gjk.dim < DIM
    /\ gjk.result.dir = gjk.dir

(* C3: project_origin returns None or Some(p) and never panics. *)
C3_ProjectOriginTotal ==
    gjk.pc = "returned" => gjk.ret \in {"None", "Some"}

(* C4: closest_points returns NoIntersection only when the min_bound of   *)
(* the support point just queried is greater than max_dist, and then with *)
(* that iteration's dir, or when the iteration counter reached 100, and   *)
(* then with the x axis.                                                   *)
C4_NoIntersectionCases ==
    gjk.result.kind = "NoIntersection" =>
        \/ /\ gjk.min_bound > gjk.max_dist
           /\ gjk.result.dir = ProjDir(gjk.niter)
           /\ gjk.max_bound = gjk.proj
        \/ /\ gjk.niter = MaxIter
           /\ gjk.result.dir = x_axis

C4_Witness ==
    /\ gjk.result.kind = "NoIntersection"
    /\ gjk.niter = MaxIter
    /\ gjk.max_dist = MaxDist

(* The loop of closest_points is straight-line code: a call that has not  *)
(* returned takes its next step.                                           *)
SpecGJKFair == SpecGJK /\ WF_vars(GJKEnter \/ GJKIterate)

(* C16: closest_points always returns, after at most 100 iterations of    *)
(* its loop and at most 100 support-point queries, and when the iteration *)
(* counter reaches 100 it has returned NoIntersection(x axis).            *)
C16_TerminatesWithinCap ==
    /\ [](/\ gjk.niter <= MaxIter
          /\ gjk.queries <= MaxIter
          /\ gjk.niter = MaxIter =>
                 gjk.pc # "loop" /\ gjk.result = NoIntersection(x_axis))
    /\ <>(gjk.pc \in {"done", "returned"})

C16_Witness ==
    /\ gjk.pc = "done"
    /\ gjk.niter = MaxIter
    /\ gjk.queries = MaxIter
    /\ gjk.result = NoIntersection(x_axis)

----------------------------------------------------------------------------
(* Distance between a composite shape and a shape: the visitor of         *)
(* distance_composite_shape_shape and the best-first traversal that       *)
(* drives it.  Reals are integers; the boxes lie along the x axis, where  *)
(* the norms the code takes are whole.                                     *)

SIMD_WIDTH == 4
Lanes == 1..SIMD_WIDTH

None == [some |-> FALSE, part |-> 0, dist |-> 0]
Some(part, dist) == [some |-> TRUE, part |-> part, dist |-> dist]

(* Result<Real, Unsupported> of the dispatcher *)
Ok(d) == [ok |-> TRUE, val |-> d]
Err == [ok |-> FALSE, val |-> 0]

MaxOf(a, b) == IF a >= b THEN a ELSE b
MinOf(a, b) == IF a <= b THEN a ELSE b

(* The norm of a vector whose squared norm is a square. *)
Norm(v) == CHOOSE r \in 0..(Abs(v[1]) + Abs(v[2]) + Abs(v[3])) : r * r = NormSq(v)

Aabb(mins, maxs) == [mins |-> mins, maxs |-> maxs]
(* The box of a lane that has no child. *)
InvalidAabb == Aabb(<<RealMax, RealMax, RealMax>>, <<-RealMax, -RealMax, -RealMax>>)

Aabb_center(a) == [i \in 1..3 |-> (a.mins[i] + a.maxs[i]) \div 2]
Aabb_half_extents(a) == [i \in 1..3 |-> (a.maxs[i] - a.mins[i]) \div 2]

Aabb_merged(a, b) ==
    IF a = InvalidAabb THEN b
    ELSE IF b = InvalidAabb THEN a
    ELSE Aabb([i \in 1..3 |-> MinOf(a.mins[i], b.mins[i])],
              [i \in 1..3 |-> MaxOf(a.maxs[i], b.maxs[i])])

(* SimdAabb::distance_to_origin, one lane *)
distance_to_origin(a) ==
    IF a = InvalidAabb THEN RealMax
    ELSE Norm([i \in 1..3 |-> MaxOf(MaxOf(a.mins[i], -a.maxs[i]), 0)])

(* The visitor as it would be if it shifted the boxes by the centre of    *)
(* g2's box instead of against it.                                         *)
visitor_new_shifts_forward(ls_aabb2) ==
    [msum_shift |-> Aabb_center(ls_aabb2),
     msum_margin |-> Aabb_half_extents(ls_aabb2)]

(* CompositeShapeAgainstAnyDistanceVisitor::new: ls_aabb2 is the box of   *)
(* g2 in the frame of the composite.                                       *)
visitor_new(ls_aabb2) ==
    [msum_shift |-> VNeg(Aabb_center(ls_aabb2)),
     msum_margin |-> Aabb_half_extents(ls_aabb2)]

(* The Minkowski sum of one lane of bv with the box of g2. *)
msum(v, a) ==
    IF a = InvalidAabb THEN a
    ELSE Aabb(VAdd(VAdd(a.mins, v.msum_shift), VNeg(v.msum_margin)),
              VAdd(VAdd(a.maxs, v.msum_shift), v.msum_margin))

ExitEarly(result) ==
    [exit |-> TRUE, result |-> result, weights |-> [ii \in Lanes |-> 0],
     mask |-> [ii \in Lanes |-> FALSE], results |-> [ii \in Lanes |-> None]]
MaybeContinue(weights, mask, results) ==
    [exit |-> FALSE, result |-> None, weights |-> weights, mask |-> mask,
     results |-> results]

(* A lane without a part. *)
NoPart == -1

(* visit as it would be if a leaf lane were weighted by the distance to   *)
(* its box instead of the distance to its part.                            *)
visit_weighs_boxes(v, dispatcher, best, bv, data) ==
    LET dist == [ii \in Lanes |-> distance_to_origin(msum(v, bv[ii]))]
        mask == [ii \in Lanes |-> dist[ii] < best]
        (* the lanes the loop asks the dispatcher about *)
        asked == {ii \in Lanes : mask[ii] /\ data.parts[ii] # NoPart}
        d(ii) == dispatcher[data.parts[ii]]
        found(ii) == ii \in asked /\ d(ii).ok
        zero == {ii \in Lanes : found(ii) /\ d(ii).val = 0}
        first == CHOOSE ii \in zero : \A jj \in zero : ii <= jj
    IN  IF data.leaf
        THEN IF zero # {}
             THEN ExitEarly(Some(data.parts[first], 0))
             ELSE MaybeContinue(
                    [ii \in Lanes |-> IF found(ii) THEN dist[ii] ELSE 0],
                    [ii \in Lanes |-> found(ii) /\ d(ii).val < best],
                    [ii \in Lanes |-> IF found(ii)
                                      THEN Some(data.parts[ii], d(ii).val)
                                      ELSE None])
        ELSE MaybeContinue(dist, mask, [ii \in Lanes |-> None])

(* visit as it would be if a leaf lane kept its payload only when its     *)
(* distance improves on best.                                              *)
visit_keeps_improving_only(v, dispatcher, best, bv, data) ==
    LET dist == [ii \in Lanes |-> distance_to_origin(msum(v, bv[ii]))]
        mask == [ii \in Lanes |-> dist[ii] < best]
        asked == {ii \in Lanes : mask[ii] /\ data.parts[ii] # NoPart}
        d(ii) == dispatcher[data.parts[ii]]
        found(ii) == ii \in asked /\ d(ii).ok
        zero == {ii \in Lanes : found(ii) /\ d(ii).val = 0}
        first == CHOOSE ii \in zero : \A jj \in zero : ii <= jj
    IN  IF data.leaf
        THEN IF zero # {}
             THEN ExitEarly(Some(data.parts[first], 0))
             ELSE MaybeContinue(
                    [ii \in Lanes |-> IF found(ii) THEN d(ii).val ELSE 0],
                    [ii \in Lanes |-> found(ii) /\ d(ii).val < best],
                    [ii \in Lanes |-> IF found(ii) /\ d(ii).val < best
                                      THEN Some(data.parts[ii], d(ii).val)
                                      ELSE None])
        ELSE MaybeContinue(dist, mask, [ii \in Lanes |-> None])

(* The lanes ii.. for which the loop of visit calls the dispatcher: those *)
(* with a part whose box is nearer than best, up to the first answer 0.   *)
RECURSIVE dispatched_from(_, _, _, _, _, _)
dispatched_from(v, dispatcher, best, bv, data, ii) ==
    IF ii > SIMD_WIDTH THEN {}
    ELSE IF distance_to_origin(msum(v, bv[ii])) < best /\ data.parts[ii] # NoPart
    THEN IF dispatcher[data.parts[ii]] = Ok(0) THEN {ii}
         ELSE {ii} \cup dispatched_from(v, dispatcher, best, bv, data, ii + 1)
    ELSE dispatched_from(v, dispatcher, best, bv, data, ii + 1)

(* The lanes for which visit calls the dispatcher. *)
dispatched(v, dispatcher, best, bv, data) ==
    IF data.leaf THEN dispatched_from(v, dispatcher, best, bv, data, 1) ELSE {}

(* CompositeShapeAgainstAnyDistanceVisitor::visit.  dispatcher maps a     *)
(* part to the distance the dispatcher answers for it; data.leaf tells    *)
(* whether the node carries parts (Some(data)).                            *)
visit(v, dispatcher, best, bv, data) ==
    LET dist == [ii \in Lanes |-> distance_to_origin(msum(v, bv[ii]))]
        mask == [ii \in Lanes |-> dist[ii] < best]
        (* the lanes the loop asks the dispatcher about *)
        asked == {ii \in Lanes : mask[ii] /\ data.parts[ii] # NoPart}
        d(ii) == dispatcher[data.parts[ii]]
        found(ii) == ii \in asked /\ d(ii).ok
        zero == {ii \in Lanes : found(ii) /\ d(ii).val = 0}
        first == CHOOSE ii \in zero : \A jj \in zero : ii <= jj
    IN  IF data.leaf
        THEN IF zero # {}
             THEN ExitEarly(Some(data.parts[first], 0))
             ELSE MaybeContinue(
                    [ii \in Lanes |-> IF found(ii) THEN d(ii).val ELSE 0],
                    [ii \in Lanes |-> found(ii) /\ d(ii).val < best],
                    [ii \in Lanes |-> IF found(ii)
                                      THEN Some(data.parts[ii], d(ii).val)
                                      ELSE None])
        ELSE MaybeContinue(dist, mask, [ii \in Lanes |-> None])

(* The composite shape: three parts, each a box one unit long at x on   *)
(* the x axis, in a tree whose root either holds the parts itself, or has *)
(* two leaves below it, or has below it a leaf and an inner node with two *)
(* leaves; or no part and an empty tree.  A node has SIMD_WIDTH lanes; a  *)
(* lane of a leaf names a part, a lane of an inner node (0-based) another *)
(* node.                                                                   *)
Parts == 0..2
PartXs == {-1, 2, 5}
(* By how much the distance to a part exceeds the distance to its box. *)
Slacks == {0, 1, 3}
Shapes == {"flat", "split", "deep", "empty"}

PartAabb(x) == Aabb(<<x, -1, -1>>, <<x + 1, 1, 1>>)

LeafNode(xs, parts) ==
    [leaf |-> TRUE, children |-> parts,
     aabbs |-> [ii \in Lanes |-> IF parts[ii] = NoPart THEN InvalidAabb
                                 ELSE PartAabb(xs[parts[ii]])]]

NodeAabb(node) ==
    Aabb_merged(Aabb_merged(node.aabbs[1], node.aabbs[2]),
                Aabb_merged(node.aabbs[3], node.aabbs[4]))

(* typed_qbvh(): the nodes, the root first. *)
Qbvh(shape, xs) ==
    IF shape = "flat"
    THEN <<LeafNode(xs, <<0, 1, 2, NoPart>>)>>
    ELSE IF shape = "split"
    THEN LET a == LeafNode(xs, <<0, 1, NoPart, NoPart>>)
             b == LeafNode(xs, <<2, NoPart, NoPart, NoPart>>)
         IN  <<[leaf |-> FALSE, children |-> <<1, 2, NoPart, NoPart>>,
                aabbs |-> <<NodeAabb(a), NodeAabb(b), InvalidAabb, InvalidAabb>>],
               a, b>>
    ELSE IF shape = "deep"
    THEN LET b == LeafNode(xs, <<2, NoPart, NoPart, NoPart>>)
             c == LeafNode(xs, <<0, NoPart, NoPart, NoPart>>)
             d == LeafNode(xs, <<1, NoPart, NoPart, NoPart>>)
             a == [leaf |-> FALSE, children |-> <<3, 4, NoPart, NoPart>>,
                   aabbs |-> <<NodeAabb(c), NodeAabb(d), InvalidAabb, InvalidAabb>>]
         IN  <<[leaf |-> FALSE, children |-> <<1, 2, NoPart, NoPart>>,
                aabbs |-> <<NodeAabb(a), NodeAabb(b), InvalidAabb, InvalidAabb>>],
               a, b, c, d>>
    ELSE <<>>

(* The distance between the box of a part and the box of g2. *)
BoxDistance(x, ls_aabb2) ==
    distance_to_origin(msum(visitor_new(ls_aabb2), PartAabb(x)))

(* The boxes g2 is given. *)
Aabbs2 == {Aabb(<<-1, -1, -1>>, <<1, 1, 1>>), Aabb(<<0, -1, -1>>, <<2, 1, 1>>)}

(* The answers of the dispatcher for a part at x: an error, or a distance *)
(* that is at least the distance between the boxes.                        *)
Answers(x, ls_aabb2) == {Err} \cup {Ok(BoxDistance(x, ls_aabb2) + k) : k \in Slacks}

(* No call of visit yet. *)
NoVisit ==
    [node |-> NoPart, best |-> 0, calls |-> {},
     st |-> MaybeContinue([ii \in Lanes |-> 0], [ii \in Lanes |-> FALSE],
                          [ii \in Lanes |-> None])]

(* distance_composite_shape_shape up to the loop of traverse_best_first:  *)
(* the visitor is built and the root, if there is one, is queued.  The    *)
(* empty composite has no part to place or to ask the dispatcher about.   *)
DistInit ==
    /\ simplex = new
    /\ call = NoCall
    /\ isect = Idle
    /\ gjk = Idle
    /\ epa = Idle
    /\ ray = Idle
    /\ \E shape \in Shapes, ls_aabb2 \in Aabbs2, xs \in [Parts -> PartXs] :
       \E dispatcher \in [Parts -> UNION {Answers(x, ls_aabb2) : x \in PartXs}] :
          /\ \A q \in Parts : dispatcher[q] \in Answers(xs[q], ls_aabb2)
          /\ shape = "empty" =>
                 \A q \in Parts : xs[q] = -1 /\ dispatcher[q] = Err
          /\ trav = [pc |-> "loop", shape |-> shape, xs |-> xs,
                     ls_aabb2 |-> ls_aabb2, dispatcher |-> dispatcher,
                     visitor |-> visitor_new(ls_aabb2),
                     queue |-> IF shape = "empty" THEN {}
                               ELSE {[node |-> 0, weight |-> RealMax \div 2]},
                     visited |-> NoVisit,
                     best_cost |-> RealMax, best_result |-> None,
                     out |-> None, panicked |-> FALSE, ret |-> 0]

(* traverse_best_first, the lanes ii.. of a MaybeContinue: a masked lane *)
(* of a leaf that improves on best_cost becomes the best result, a masked *)
(* lane of an inner node queues its child.                                 *)
RECURSIVE continue_lanes(_, _, _, _, _)
continue_lanes(t, nodes, node, st, ii) ==
    IF ii > SIMD_WIDTH THEN t
    ELSE LET t1 ==
               IF ~st.mask[ii] THEN t
               ELSE IF node.leaf
               THEN IF st.weights[ii] < t.best_cost /\ st.results[ii].some
                    THEN [t EXCEPT !.best_cost = st.weights[ii],
                                   !.best_result = st.results[ii]]
                    ELSE t
               ELSE IF node.children[ii] # NoPart /\ node.children[ii] < Len(nodes)
               THEN [t EXCEPT !.queue = t.queue \cup
                                 {[node |-> node.children[ii],
                                   weight |-> st.weights[ii]]}]
               ELSE t
         IN  continue_lanes(t1, nodes, node, st, ii + 1)

(* traverse_best_first returns out. *)
Finish(t, out) == [t EXCEPT !.out = out, !.pc = "done"]

(* One turn of the loop of traverse_best_first with entry popped. *)
traverse_entry(t, entry) ==
    LET nodes == Qbvh(t.shape, t.xs)
        node == nodes[entry.node + 1]
        data == [leaf |-> node.leaf,
                 parts |-> IF node.leaf THEN node.children
                           ELSE [ii \in Lanes |-> NoPart]]
        popped == [t EXCEPT !.queue = t.queue \ {entry}]
        st == visit(t.visitor, t.dispatcher, t.best_cost, node.aabbs, data)
        calls == dispatched(t.visitor, t.dispatcher, t.best_cost, node.aabbs, data)
        visited == [popped EXCEPT !.visited =
                       [node |-> entry.node, best |-> t.best_cost,
                        calls |-> calls, st |-> st]]
    IN  IF entry.weight >= t.best_cost THEN Finish(popped, t.best_result)
        ELSE IF st.exit
        THEN Finish(visited, IF st.result.some THEN st.result ELSE t.best_result)
        ELSE continue_lanes(visited, nodes, node, st, 1)

(* The entries the heap may pop: those of least weight. *)
Top(queue) == {e \in queue : \A f \in queue : e.weight <= f.weight}

Traverse ==
    /\ trav.pc = "loop"
    /\ IF trav.queue = {}
       THEN trav' = Finish(trav, trav.best_result)
       ELSE \E entry \in Top(trav.queue) : trav' = traverse_entry(trav, entry)
    /\ UNCHANGED <<simplex, call, gjk, epa, ray, isect>>

(* distance_composite_shape_shape: what it makes of the traversal's       *)
(* answer, the distance or the panic of expect on None.                    *)
distance_composite_shape_shape(t) ==
    IF t.out.some
    THEN [t EXCEPT !.ret = t.out.dist, !.pc = "returned"]
    ELSE [t EXCEPT !.panicked = TRUE, !.pc = "returned"]

DistReturn ==
    /\ trav.pc = "done"
    /\ trav' = distance_composite_shape_shape(trav)
    /\ UNCHANGED <<simplex, call, gjk, epa, ray, isect>>

DistNext == Traverse \/ DistReturn

SpecDist == DistInit /\ [][DistNext]_vars

(* The least of the distances the dispatcher answers for the parts. *)
MinPartDistance(t) ==
    CHOOSE m \in {t.dispatcher[q].val : q \in Parts} :
        \A q \in Parts : m <= t.dispatcher[q].val

(* C1: when the dispatcher answers an Ok, non-negative distance for every *)
(* part, and no box is farther than the parts in it,                       *)
(* distance_composite_shape_shape returns the least of these distances,   *)
(* found with a part whose distance it is.                                 *)
C1_ReturnsMinimum ==
    (trav.pc = "returned" /\ \A q \in Parts : trav.dispatcher[q].ok) =>
        /\ ~trav.panicked
        /\ trav.ret = MinPartDistance(trav)
        /\ trav.dispatcher[trav.out.part] = Ok(trav.ret)

C1_Witness ==
    /\ trav.pc = "returned"
    /\ \A q \in Parts : trav.dispatcher[q].ok
    /\ trav.shape = "split"
    /\ trav.out.part = 2
    /\ trav.ret > 0
    /\ trav.xs[2] > trav.xs[0]
    /\ trav.dispatcher[0].val > trav.ret
    /\ trav.dispatcher[1].val > trav.ret

(* The node of the last call of visit, and for its lane ii the part, the  *)
(* lower bound of the Minkowski sum and the dispatcher's answer.          *)
VisitedNode == Qbvh(trav.shape, trav.xs)[trav.visited.node + 1]
LaneLowerBound(ii) == distance_to_origin(msum(trav.visitor, VisitedNode.aabbs[ii]))
LaneAnswer(ii) == trav.dispatcher[VisitedNode.children[ii]]
(* The lanes of a visited leaf that carry a part and whose lower bound is *)
(* below best.                                                             *)
OpenLanes ==
    {ii \in Lanes : VisitedNode.children[ii] # NoPart
                       /\ LaneLowerBound(ii) < trav.visited.best}
(* The lanes of a visited leaf the dispatcher answered with a distance. *)
EvaluatedLanes == {ii \in trav.visited.calls : LaneAnswer(ii).ok}

(* C18: at a leaf the dispatcher is called only for lanes that carry a    *)
(* part and whose lower bound is below best; the first such lane whose    *)
(* distance is 0 makes visit return ExitEarly(Some((part_id, 0)));        *)
(* otherwise every such lane is asked, each lane with a distance d gets   *)
(* weight d, mask d < best and result Some((part_id, d)), also when       *)
(* d >= best, and every other lane has its mask off and result None.      *)
C18_LeafLanes ==
    (trav.visited.node # NoPart /\ VisitedNode.leaf) =>
        LET st == trav.visited.st
            zero == {ii \in OpenLanes : LaneAnswer(ii) = Ok(0)}
        IN  /\ trav.visited.calls \subseteq OpenLanes
            /\ zero # {} =>
                  /\ st.exit
                  /\ \E ii \in zero :
                        /\ \A jj \in zero : ii <= jj
                        /\ st.result = Some(VisitedNode.children[ii], 0)
                        /\ trav.visited.calls = {jj \in OpenLanes : jj <= ii}
            /\ zero = {} =>
                  /\ ~st.exit
                  /\ trav.visited.calls = OpenLanes
                  /\ \A ii \in EvaluatedLanes :
                        /\ st.weights[ii] = LaneAnswer(ii).val
                        /\ st.mask[ii] <=> LaneAnswer(ii).val < trav.visited.best
                        /\ st.results[ii] =
                              Some(VisitedNode.children[ii], LaneAnswer(ii).val)
                  /\ \A ii \in Lanes \ EvaluatedLanes :
                        ~st.mask[ii] /\ st.results[ii] = None

C18_Witness ==
    /\ trav.visited.node # NoPart
    /\ VisitedNode.leaf
    /\ ~trav.visited.st.exit
    /\ trav.visited.best < RealMax
    /\ \E ii \in EvaluatedLanes :
          /\ LaneAnswer(ii).val >= trav.visited.best
          /\ trav.visited.st.results[ii].some
    /\ \E ii \in EvaluatedLanes : trav.visited.st.mask[ii]

(* The box of a child moved against the centre of g2's box and grown by    *)
(* its half extents.                                                       *)
GrownBox(bv) ==
    Aabb(VAdd(VAdd(bv.mins, VNeg(Aabb_center(trav.ls_aabb2))),
              VNeg(Aabb_half_extents(trav.ls_aabb2))),
         VAdd(VAdd(bv.maxs, VNeg(Aabb_center(trav.ls_aabb2))),
              Aabb_half_extents(trav.ls_aabb2)))
(* The lanes of a visited inner node that have a child. *)
ChildLanes == {ii \in Lanes : VisitedNode.children[ii] # NoPart}

(* C19: at an inner node visit returns for the lane of each child the     *)
(* weight distance_to_origin([bv.mins - c - h, bv.maxs - c + h]) and the  *)
(* mask bit set exactly when that lower bound is below best; the lanes    *)
(* without a child have their mask off, and no lane carries a result.     *)
C19_InnerLanes ==
    (trav.visited.node # NoPart /\ ~VisitedNode.leaf) =>
        /\ ~trav.visited.st.exit
        /\ trav.visited.calls = {}
        /\ \A ii \in ChildLanes :
              /\ trav.visited.st.weights[ii] =
                    distance_to_origin(GrownBox(VisitedNode.aabbs[ii]))
              /\ trav.visited.st.mask[ii] <=>
                    distance_to_origin(GrownBox(VisitedNode.aabbs[ii]))
                      < trav.visited.best
        /\ \A ii \in Lanes \ ChildLanes : ~trav.visited.st.mask[ii]
        /\ \A ii \in Lanes : trav.visited.st.results[ii] = None

C19_Witness ==
    /\ trav.visited.node # NoPart
    /\ ~VisitedNode.leaf
    /\ trav.visited.best < RealMax
    /\ trav.ls_aabb2 = Aabb(<<0, -1, -1>>, <<2, 1, 1>>)
    /\ \E ii \in ChildLanes :
          /\ distance_to_origin(GrownBox(VisitedNode.aabbs[ii])) >= trav.visited.best
          /\ ~trav.visited.st.mask[ii]
    /\ \E ii \in ChildLanes : trav.visited.st.mask[ii]

(* C20: distance_composite_shape_shape panics exactly when the traversal  *)
(* yields no result, and that exactly when the composite shape is empty.  *)
C20_PanicsIffEmpty ==
    trav.pc = "returned" =>
        /\ trav.panicked <=> ~trav.out.some
        /\ trav.panicked <=> trav.shape = "empty"

----------------------------------------------------------------------------
(* EPA in two dimensions (query/epa/epa2.rs).                              *)
(*                                                                         *)
(* The shapes are any implementations of the support map and the seed is  *)
(* any simplex, so the geometry of a face (whether the origin projects    *)
(* inside it, whether it is degenerate, its signed distance normal . p to *)
(* the origin) and the support value of a new point are inputs.  Lengths  *)
(* are counted in multiples of DEFAULT_EPSILON.  A vertex is named by the *)
(* position it was pushed at, a normal by the edge it is the normal of.   *)

(* _eps = DEFAULT_EPSILON *)
EPA_eps == 1
(* _eps_tol = _eps * 100.0 *)
EPA_eps_tol == 100
(* gjk::eps_tol() = DEFAULT_EPSILON * 10.0 *)
gjk_eps_tol == 10
(* The cap of each loop of the normal search of a vertex-vertex contact. *)
MAX_ITERS == 100
(* The cap the expansion compares niter with. *)
EPA_MaxIter == 100

(* Option<FaceId> *)
NoFaceId == [some |-> FALSE, id |-> 0, neg_dist |-> 0]

(* FaceId::new as it would be without its test. *)
FaceId_new_accepts_all(id, neg_dist) ==
    [some |-> TRUE, id |-> id, neg_dist |-> neg_dist]

(* FaceId::new *)
FaceId_new(id, neg_dist) ==
    IF neg_dist > gjk_eps_tol THEN NoFaceId
    ELSE [some |-> TRUE, id |-> id, neg_dist |-> neg_dist]

(* The greatest entries of the heap by Ord for FaceId. *)
Greatest(heap) ==
    With(CHOOSE m \in {f.neg_dist : f \in heap} :
            \A k \in {f.neg_dist : f \in heap} : k <= m,
         LAMBDA m : {f \in heap : f.neg_dist = m})

(* BinaryHeap::peek: among equal entries the heap's layout decides, here  *)
(* by the order tie the run is given.                                      *)
Peek(heap, tie) ==
    With({f.id : f \in Greatest(heap)}, LAMBDA ids :
    With(IF tie = "oldest"
         THEN CHOOSE i \in ids : \A j \in ids : i <= j
         ELSE CHOOSE i \in ids : \A j \in ids : i >= j,
         LAMBDA i : CHOOSE f \in heap : f.id = i))

(* Unit normals and the zero vector of a degenerate face. *)
ZeroNormal == [kind |-> "zero", a |-> 0, b |-> 0]
CcwNormal(a, b) == [kind |-> "ccw", a |-> a, b |-> b]
y_axis == [kind |-> "y_axis", a |-> 0, b |-> 0]
(* The tangent of the k-th support point of shape g, turned by 90 degrees. *)
PerpTangent(g, k) == [kind |-> "perp", a |-> g, b |-> k]

(* What the geometry answers for an edge: project_origin finds the origin *)
(* inside it or not, ccw_face_normal finds a normal or not, dist is       *)
(* normal . p for the points p of the edge's line.                         *)
Geom(inside, degenerate, dist) ==
    [inside |-> inside, degenerate |-> degenerate, dist |-> dist]

(* Face::new_with_proj as it would be if it flagged no face. *)
Face_new_with_proj_flags_none(vertices, proj, bcoords, pts, geom) ==
    [pts |-> pts,
     normal |-> IF geom.degenerate THEN ZeroNormal
                ELSE CcwNormal(At(vertices, pts[1]), At(vertices, pts[2])),
     proj |-> proj,
     bcoords |-> bcoords,
     deleted |-> FALSE,
     dist |-> IF geom.degenerate THEN 0 ELSE geom.dist]

(* Face::new_with_proj *)
Face_new_with_proj(vertices, proj, bcoords, pts, geom) ==
    [pts |-> pts,
     normal |-> IF geom.degenerate THEN ZeroNormal
                ELSE CcwNormal(At(vertices, pts[1]), At(vertices, pts[2])),
     proj |-> proj,
     bcoords |-> bcoords,
     deleted |-> geom.degenerate,
     dist |-> IF geom.degenerate THEN 0 ELSE geom.dist]

(* Face::new: the face and whether the origin projects inside it. *)
Face_new(vertices, pts, geom) ==
    IF geom.inside
    THEN <<Face_new_with_proj(vertices, "proj", "proj", pts, geom), TRUE>>
    ELSE <<Face_new_with_proj(vertices, "origin", "zero", pts, geom), FALSE>>

(* Face::closest_points: the vertices and weights the witnesses combine. *)
Face_closest_points(face, vertices) ==
    [a |-> At(vertices, face.pts[1]), b |-> At(vertices, face.pts[2]),
     bcoords |-> face.bcoords]

OriginPair == [a |-> 0, b |-> 0, bcoords |-> "origin"]

(* Option<(Point, Point, Unit<Vector>)> *)
EPA_None == [kind |-> "None", cpts |-> OriginPair, normal |-> ZeroNormal]
EPA_Some(cpts, normal) == [kind |-> "Some", cpts |-> cpts, normal |-> normal]
(* The panic of heap.peek().unwrap() on an empty heap. *)
EPA_Panic == [kind |-> "panic", cpts |-> OriginPair, normal |-> ZeroNormal]
EPA_NoResult == [kind |-> "none", cpts |-> OriginPair, normal |-> ZeroNormal]

(* EPA::new *)
EPA_new == [vertices |-> <<>>, faces |-> <<>>, heap |-> {}]

(* EPA::reset as it would be if it left the heap alone. *)
EPA_reset_keeps_heap(e) == [e EXCEPT !.vertices = <<>>, !.faces = <<>>]

(* EPA::reset *)
EPA_reset(e) == [e EXCEPT !.vertices = <<>>, !.faces = <<>>, !.heap = {}]

(* What the shapes answer to an expansion: the support value of the new   *)
(* point along the face's normal, and the geometry of the two edges that  *)
(* join it to the face's ends.                                             *)
Cands == {"near", "far", "lower"}
FacePairs ==
    {<<"outside", "outside">>, <<"same", "same">>, <<"farther", "farther">>,
     <<"degenerate", "same">>, <<"same", "nearer">>, <<"farther", "outside">>}
Resp == [cand : Cands, faces : FacePairs]
NoResp == [cand |-> "none", faces |-> <<"none", "none">>]


(* closest_points returns res at the return statement named exit. *)
EPA_return(e, res, exit) == [e EXCEPT !.result = res, !.exit = exit, !.pc = "done"]

(* The witnesses and the normal of a face. *)
FaceResult(face, vertices) ==
    EPA_Some(Face_closest_points(face, vertices), face.normal)

(* What closest_points returns from best_face_id. *)
BestFaceResult(e) == FaceResult(At(e.faces, e.best_face_id.id), e.vertices)

(* closest_points, lines 169-176: reset, then the points of the simplex   *)
(* become the first vertices.                                              *)
closest_points_seed(e, dim) ==
    With(EPA_reset(e), LAMBDA r :
        [r EXCEPT !.vertices = [i \in 1..(dim + 1) |-> i - 1],
                  !.dim = dim, !.pc = "seeded", !.result = EPA_NoResult,
                  !.exit = "none",
                  !.tie = "oldest", !.mode = NoResp, !.seed = <<>>,
                  !.n = y_axis, !.q1 = 0, !.q2 = 0,
                  !.niter = 0, !.max_dist = RealMax, !.best_face_id = NoFaceId,
                  !.old_dist = 0, !.queries = 0])

(* heap.push(FaceId::new(id, neg_dist)?) *)
push_or_return(e, id, neg_dist) ==
    IF FaceId_new(id, neg_dist).some
    THEN [e EXCEPT !.heap = @ \cup {FaceId_new(id, neg_dist)}]
    ELSE EPA_return(e, EPA_None, "rejected")

(* The push of a seed edge as it would be without its test of proj_inside. *)
seed_push_unconditional(e, id, inside) ==
    IF e.pc = "done" THEN e
    ELSE push_or_return(e, id, -At(e.faces, id).dist)

(* Lines 237-250 for the face at index id of a dimension-2 seed. *)
seed_push(e, id, inside) ==
    IF e.pc = "done" \/ ~inside THEN e
    ELSE push_or_return(e, id, -At(e.faces, id).dist)

(* Lines 283-286: the locals of the expansion. *)
start_expansion(e) ==
    IF e.heap = {} THEN EPA_return(e, EPA_Panic, "panic")
    ELSE [e EXCEPT !.niter = 0, !.max_dist = RealMax,
                   !.best_face_id = Peek(e.heap, e.tie), !.old_dist = 0,
                   !.pc = "loop"]

(* Lines 217-258: the three edges of a dimension-2 seed; swapped tells    *)
(* that dp1.perp(dp2) < 0, g the geometry of the edges.                    *)
seed_triangle(e, swapped, g) ==
    LET vertices == IF swapped THEN SwapAt(e.vertices, 1, 2) ELSE e.vertices
        f1 == Face_new(vertices, <<0, 1>>, g[1])
        f2 == Face_new(vertices, <<1, 2>>, g[2])
        f3 == Face_new(vertices, <<2, 0>>, g[3])
        e0 == [e EXCEPT !.vertices = vertices,
                        !.faces = <<f1[1], f2[1], f3[1]>>,
                        !.seed = <<f1[2], f2[2], f3[2]>>]
    IN  With(seed_push(e0, 0, f1[2]), LAMBDA e1 :
        With(seed_push(e1, 1, f2[2]), LAMBDA e2 :
        With(seed_push(e2, 2, f3[2]), LAMBDA e3 :
            IF e3.pc = "done" THEN e3
            ELSE IF ~(f1[2] \/ f2[2] \/ f3[2])
            THEN EPA_return(e3, EPA_None, "no_projection")
            ELSE [e3 EXCEPT !.pc = "start"])))

(* Lines 259-281: the two sides of a dimension-1 seed. *)
seed_segment(e, g) ==
    LET f1 == Face_new_with_proj(e.vertices, "origin", "first", <<0, 1>>, g[1])
        f2 == Face_new_with_proj(e.vertices, "origin", "first", <<1, 0>>, g[2])
        e0 == [e EXCEPT !.faces = <<f1, f2>>, !.seed = <<TRUE, TRUE>>]
    IN  With(push_or_return(e0, 0, f1.dist), LAMBDA e1 :
            IF e1.pc = "done" THEN e1
            ELSE With(push_or_return(e1, 1, f2.dist), LAMBDA e2 :
                    IF e2.pc = "done" THEN e2
                    ELSE [e2 EXCEPT !.pc = "start"]))

(* The support values: within eps_tol of the face, well beyond it, or     *)
(* below the least one so far.                                             *)
NearStep == 50
FarStep == 300
LowerStep == 60

(* candidate_max_dist = cso_point.point.coords.dot(&face.normal) *)
CandValue(kind, curr_dist, max_dist) ==
    CASE kind = "near" -> curr_dist + NearStep
      [] kind = "lower" /\ max_dist # RealMax -> max_dist - LowerStep
      [] OTHER -> curr_dist + FarStep

(* How much farther than the split face a farther edge is. *)
FartherStep == 2

FaceGeom(kind, curr_dist) ==
    CASE kind = "outside" -> Geom(FALSE, FALSE, 0)
      [] kind = "degenerate" -> Geom(TRUE, TRUE, 0)
      [] kind = "nearer" -> Geom(TRUE, FALSE, curr_dist - 1)
      [] kind = "same" -> Geom(TRUE, FALSE, curr_dist)
      [] OTHER -> Geom(TRUE, FALSE, curr_dist + FartherStep)

(* Lines 332-348 for one new face f = <<face, proj_inside>>. *)
push_new_face(e, f, curr_dist) ==
    IF e.pc = "done" THEN e
    ELSE IF f[2] /\ f[1].dist < curr_dist
    THEN EPA_return(e, FaceResult(f[1], e.vertices), "new_face")
    ELSE With(IF f[2] /\ ~f[1].deleted
              THEN push_or_return(e, Len(e.faces), -f[1].dist)
              ELSE e,
              LAMBDA e1 : IF e1.pc = "done" THEN e1
                          ELSE [e1 EXCEPT !.faces = Append(@, f[1])])

(* niter > 100 *)
cap_reached(niter) == niter > EPA_MaxIter

(* Lines 322-355: the face is split at the new vertex. *)
split_face(e, face, support_point_id, curr_dist, r) ==
    LET pts1 == <<face.pts[1], support_point_id>>
        pts2 == <<support_point_id, face.pts[2]>>
        f1 == Face_new(e.vertices, pts1, FaceGeom(r.faces[1], curr_dist))
        f2 == Face_new(e.vertices, pts2, FaceGeom(r.faces[2], curr_dist))
    IN  With(push_new_face([e EXCEPT !.old_dist = curr_dist], f1, curr_dist),
             LAMBDA e1 :
        With(push_new_face(e1, f2, curr_dist), LAMBDA e2 :
            IF e2.pc = "done" THEN e2
            ELSE IF cap_reached(e2.niter + 1)
            THEN EPA_return([e2 EXCEPT !.niter = @ + 1],
                            BestFaceResult(e2), "cap")
            ELSE [e2 EXCEPT !.niter = @ + 1]))

(* The test of line 303 as it would be if a tie moved best_face_id. *)
improves_or_ties(candidate_max_dist, max_dist) == candidate_max_dist <= max_dist

(* candidate_max_dist < max_dist, line 303 *)
improves(candidate_max_dist, max_dist) == candidate_max_dist < max_dist

(* Lines 299-320: the support point of a popped face that is not deleted, *)
(* the bounds and the exit tests.                                          *)
expand_face(e, face_id, face, r) ==
    LET curr_dist == -face_id.neg_dist
        support_point_id == Len(e.vertices)
        candidate_max_dist == CandValue(r.cand, curr_dist, e.max_dist)
    IN  With([e EXCEPT !.vertices = Append(@, support_point_id),
                       !.queries = @ + 1,
                       !.best_face_id =
                           IF improves(candidate_max_dist, e.max_dist)
                           THEN face_id ELSE @,
                       !.max_dist =
                           IF improves(candidate_max_dist, e.max_dist)
                           THEN candidate_max_dist ELSE @],
             LAMBDA e1 :
            IF \/ e1.max_dist - curr_dist < EPA_eps_tol
               \/ /\ Abs(curr_dist - e.old_dist) < EPA_eps
                  /\ candidate_max_dist < e1.max_dist
            THEN EPA_return(e1, BestFaceResult(e1), "converged")
            ELSE split_face(e1, face, support_point_id, curr_dist, r))

(* One turn of the loop of lines 291-356, and lines 358-360 when the heap *)
(* is empty.                                                               *)
expansion_turn(e, r) ==
    IF e.heap = {} THEN EPA_return(e, BestFaceResult(e), "exhausted")
    ELSE With(Peek(e.heap, e.tie), LAMBDA face_id :
         With([e EXCEPT !.heap = @ \ {face_id}], LAMBDA popped :
            IF At(e.faces, face_id.id).deleted THEN popped
            ELSE expand_face(popped, face_id, At(e.faces, face_id.id), r)))

(* for _ in 0..MAX_ITERS, as it would be with an inclusive range *)
search_goes_on_inclusive(q) == q <= MAX_ITERS

(* for _ in 0..MAX_ITERS: the loop takes another turn after q turns *)
search_goes_on(q) == q < MAX_ITERS

(* Lines 188-199: one turn of the search on g1; tangent tells what the    *)
(* support point gives: no tangent, one below n, or one that turns n.     *)
search1_turn(e, tangent) ==
    With([e EXCEPT !.q1 = @ + 1], LAMBDA e1 :
        IF tangent = "turn"
        THEN [e1 EXCEPT !.n = PerpTangent(1, e1.q1),
                        !.pc = IF search_goes_on(e1.q1) THEN "search1"
                               ELSE "search2"]
        ELSE [e1 EXCEPT !.pc = "search2"])

(* Lines 203-216: one turn of the search on g2, and the return. *)
search2_turn(e, tangent) ==
    With([e EXCEPT !.q2 = @ + 1], LAMBDA e1 :
        IF tangent = "turn"
        THEN With([e1 EXCEPT !.n = PerpTangent(2, e1.q2)], LAMBDA e2 :
                IF search_goes_on(e2.q2) THEN e2
                ELSE EPA_return(e2, EPA_Some(OriginPair, e2.n), "vertex"))
        ELSE EPA_return(e1, EPA_Some(OriginPair, e1.n), "vertex"))

(* An EPA and the call of closest_points it is serving: the simplex's     *)
(* dimension, the order the heap gives equal entries (tie), the answers   *)
(* of the shapes, the same at every expansion of a call (mode),           *)
(* proj_inside1..3 (seed), the normal and the                             *)
(* support queries of the normal search (n, q1, q2), the locals of the    *)
(* expansion, the number of support points it asked for (queries), where  *)
(* it returned (exit), and whether the EPA held faces or heap entries of  *)
(* an earlier call when this one began (reused).                           *)
EPA_idle ==
    EPA_new @@
    [pc |-> "idle", dim |-> 0, tie |-> "oldest", mode |-> NoResp, seed |-> <<>>,
     n |-> y_axis, q1 |-> 0, q2 |-> 0, niter |-> 0, max_dist |-> RealMax,
     best_face_id |-> NoFaceId, old_dist |-> 0, queries |-> 0,
     result |-> EPA_NoResult, exit |-> "none", reused |-> FALSE]

EPAInit ==
    /\ simplex = new
    /\ call = NoCall
    /\ isect = Idle
    /\ gjk = Idle
    /\ trav = Idle
    /\ ray = Idle
    /\ epa = EPA_idle

(* The signed distances of the edges of a seed. *)
SeedDists == {-11, 0, 11}
SeedGeoms ==
    {Geom(FALSE, FALSE, 0), Geom(TRUE, TRUE, 0)}
        \cup {Geom(TRUE, FALSE, d) : d \in SeedDists}
(* dist1 of a dimension-1 seed; its two faces have opposite normals and  *)
(* the same supporting line, so that dist2 = -dist1.                     *)
SegmentDists == {-11, -1, 0, 1, 11}
Ties == {"oldest", "newest"}

(* closest_points is called, on a new EPA or one that has served before. *)
EPAEnter ==
    /\ epa.pc \in {"idle", "done"}
    /\ epa.result.kind # "panic"
    /\ \E dim \in 0..2 :
          epa' = [closest_points_seed(epa, dim) EXCEPT
                     !.reused = epa.faces # <<>> /\ epa.heap # {}]
    /\ UNCHANGED <<simplex, call, gjk, trav, ray, isect>>

EPASeedVertex ==
    /\ epa.pc = "seeded"
    /\ epa.dim = 0
    /\ epa' = [epa EXCEPT !.n = y_axis, !.pc = "search1"]
    /\ UNCHANGED <<simplex, call, gjk, trav, ray, isect>>

EPASeedTriangle ==
    /\ epa.pc = "seeded"
    /\ epa.dim = 2
    /\ \E swapped \in BOOLEAN, g \in [1..3 -> SeedGeoms],
          tie \in Ties, mode \in Resp :
          epa' = seed_triangle([epa EXCEPT !.tie = tie, !.mode = mode],
                               swapped, g)
    /\ UNCHANGED <<simplex, call, gjk, trav, ray, isect>>

EPASeedSegment ==
    /\ epa.pc = "seeded"
    /\ epa.dim = 1
    /\ \E degenerate \in BOOLEAN, dist1 \in SegmentDists,
          tie \in Ties, mode \in Resp :
          epa' = seed_segment([epa EXCEPT !.tie = tie, !.mode = mode],
                              <<Geom(TRUE, degenerate, dist1),
                                Geom(TRUE, degenerate, -dist1)>>)
    /\ UNCHANGED <<simplex, call, gjk, trav, ray, isect>>

EPAStartExpansion ==
    /\ epa.pc = "start"
    /\ epa' = start_expansion(epa)
    /\ UNCHANGED <<simplex, call, gjk, trav, ray, isect>>

Tangents == {"none", "below", "turn"}

EPASearch1 ==
    /\ epa.pc = "search1"
    /\ \E tangent \in Tangents : epa' = search1_turn(epa, tangent)
    /\ UNCHANGED <<simplex, call, gjk, trav, ray, isect>>

EPASearch2 ==
    /\ epa.pc = "search2"
    /\ \E tangent \in Tangents : epa' = search2_turn(epa, tangent)
    /\ UNCHANGED <<simplex, call, gjk, trav, ray, isect>>

EPAExpand ==
    /\ epa.pc = "loop"
    /\ epa' = expansion_turn(epa, epa.mode)
    /\ UNCHANGED <<simplex, call, gjk, trav, ray, isect>>

EPANext ==
    \/ EPAEnter
    \/ EPASeedVertex
    \/ EPASeedTriangle
    \/ EPASeedSegment
    \/ EPAStartExpansion
    \/ EPASearch1
    \/ EPASearch2
    \/ EPAExpand

SpecEPA == EPAInit /\ [][EPANext]_vars

----------------------------------------------------------------------------
(* Properties of EPA *)

(* C11: closest_points returns None whenever the loop of the expansion    *)
(* ends, at the cap or on an empty heap, without the convergence test     *)
(* having held: a call that leaves the loop so does not return Some.      *)
C11_NoneUnlessConverged ==
    (epa.pc = "done" /\ epa.exit \in {"cap", "exhausted"}) =>
        epa.result.kind = "None"

(* The faces that have an entry on the heap. *)
HeapIds(e) == {f.id : f \in e.heap}

(* closest_points has returned while it was seeding the polytope. *)
ReturnedFromSeed(e) ==
    e.pc = "done" /\ e.exit \in {"rejected", "no_projection"} /\ e.queries = 0

(* An edge of the seed that the origin projects inside and FaceId::new    *)
(* refuses.                                                                 *)
RefusedEdge(e, i) == e.seed[i] /\ -At(e.faces, i - 1).dist > gjk_eps_tol

(* C12 as stated: after a dimension-2 seed each of the three edges is on  *)
(* the heap iff the origin projects inside it; if none is, closest_points *)
(* returns None; otherwise, and after a dimension-1 seed, the expansion   *)
(* starts, and on a heap that is not empty.                                *)
C12_SeedPushedIffInside ==
    /\ epa.result.kind # "panic"
    /\ (epa.dim = 2 /\ (epa.pc = "start" \/ ReturnedFromSeed(epa))) =>
          /\ \A i \in 1..3 : epa.seed[i] <=> (i - 1) \in HeapIds(epa)
          /\ (\A i \in 1..3 : ~epa.seed[i]) =>
                epa.pc = "done" /\ epa.result = EPA_None
          /\ (\E i \in 1..3 : epa.seed[i]) =>
                epa.pc = "start" /\ epa.heap # {}
    /\ (epa.dim = 1 /\ (epa.pc = "start" \/ ReturnedFromSeed(epa))) =>
          epa.pc = "start" /\ epa.heap # {}

(* C12 amended: the edges are pushed in order, and the first edge that    *)
(* the origin projects inside but whose negated distance is above eps_tol *)
(* makes closest_points return None at once; short of that, each edge is  *)
(* on the heap iff the origin projects inside it, None is returned if     *)
(* none is, and whenever the expansion starts the heap is not empty.      *)
C12_SeedPushedIffInsideUnlessRefused ==
    /\ epa.result.kind # "panic"
    /\ (epa.dim = 2 /\ epa.pc = "start") =>
          /\ \A i \in 1..3 : epa.seed[i] <=> (i - 1) \in HeapIds(epa)
          /\ \A i \in 1..3 : ~RefusedEdge(epa, i)
          /\ epa.heap # {}
    /\ (epa.dim = 2 /\ ReturnedFromSeed(epa)) =>
          /\ epa.result = EPA_None
          /\ epa.exit = "no_projection" <=> \A i \in 1..3 : ~epa.seed[i]
          /\ epa.exit = "rejected" <=> \E i \in 1..3 : RefusedEdge(epa, i)
          /\ \A i \in 1..3 :
                (i - 1) \in HeapIds(epa) <=>
                    /\ epa.seed[i]
                    /\ \A j \in 1..i : ~RefusedEdge(epa, j)
    /\ (epa.dim = 1 /\ epa.pc = "start") => HeapIds(epa) = {0, 1}
    /\ (epa.dim = 1 /\ ReturnedFromSeed(epa)) =>
          epa.result = EPA_None /\ epa.exit = "rejected"

C12_Witness ==
    /\ epa.pc = "start"
    /\ epa.dim = 2
    /\ epa.seed = <<TRUE, FALSE, TRUE>>
    /\ HeapIds(epa) = {0, 2}
    /\ Len(epa.faces) = 3

(* C13: for a seed of dimension 0 closest_points returns                  *)
(* Some((origin, origin, n)) with the normal the search ended on; it asks *)
(* g1 for at most 100 support points, then g2 for at most 100, and never  *)
(* enters the expansion.                                                    *)
C13_VertexContact ==
    (epa.dim = 0 /\ epa.pc # "idle") =>
        /\ epa.pc \in {"seeded", "search1", "search2", "done"}
        /\ epa.q1 <= MAX_ITERS
        /\ epa.q2 <= MAX_ITERS
        /\ epa.pc \in {"seeded", "search1"} => epa.q2 = 0
        /\ epa.queries = 0
        /\ epa.faces = <<>>
        /\ epa.heap = {}
        /\ epa.pc = "done" =>
              /\ epa.result = EPA_Some(OriginPair, epa.n)
              /\ epa.n \in {y_axis, PerpTangent(1, epa.q1), PerpTangent(1, epa.q1 - 1),
                            PerpTangent(2, epa.q2), PerpTangent(2, epa.q2 - 1)}

C13_Witness ==
    /\ epa.pc = "done"
    /\ epa.dim = 0
    /\ epa.q1 = MAX_ITERS
    /\ epa.q2 = MAX_ITERS
    /\ epa.result = EPA_Some(OriginPair, PerpTangent(2, MAX_ITERS))

(* C14: closest_points begins on an EPA that has served earlier calls in  *)
(* the state it begins in on EPA::new(): whatever vertices, faces and     *)
(* heap entries were left, the call starts from the simplex's points, no  *)
(* face and an empty heap, and all it does and returns from there on is   *)
(* determined by that state and the shapes.                                 *)
C14_ReuseIsFresh ==
    [][(epa.pc \in {"idle", "done"} /\ epa'.pc = "seeded") =>
          epa' = [closest_points_seed(EPA_idle, epa'.dim) EXCEPT
                     !.reused = epa'.reused]]_vars

C14_Witness ==
    /\ epa.pc = "seeded"
    /\ epa.reused
    /\ epa.vertices = <<0, 1, 2>>
    /\ epa.faces = <<>>
    /\ epa.heap = {}

(* C17: the expansion asks for at most 100 support points: at most 100    *)
(* faces are expanded in one call.                                          *)
C17_ExpansionCap ==
    epa.queries <= EPA_MaxIter /\ epa.niter <= EPA_MaxIter


(* The entry the next turn of the expansion pops, its face and distance,  *)
(* and the support value the shapes answer for it.                        *)
NextFaceId == Peek(epa.heap, epa.tie)
NextFace == At(epa.faces, NextFaceId.id)
NextDist == -NextFaceId.neg_dist
NextCandidate == CandValue(epa.mode.cand, NextDist, epa.max_dist)
(* The next turn of the expansion pops a face that is not deleted. *)
Expanding == epa.pc = "loop" /\ epa.heap # {} /\ ~NextFace.deleted

(* C22: an iteration of the expansion after the first in which the popped *)
(* face's distance is within eps of the previous popped face's while the  *)
(* new candidate_max_dist is below max_dist returns the witnesses of      *)
(* best_face_id, whether or not max_dist - curr_dist < eps_tol.           *)
C22_StallExit ==
    [][(/\ Expanding
        /\ epa.niter > 0
        /\ Abs(NextDist - epa.old_dist) < EPA_eps
        /\ NextCandidate < epa.max_dist) =>
          (/\ epa'.pc = "done"
           /\ epa'.exit = "converged"
           /\ epa'.result = BestFaceResult(epa'))]_vars

(* C23: every entry of the heap carries the negation of the signed        *)
(* distance normal . p of its face, so that the entry the heap pops is    *)
(* one whose face is nearest to the origin among the faces on the heap.   *)
C23_HeapKeyIsNegDist ==
    /\ \A f \in epa.heap : f.neg_dist = -At(epa.faces, f.id).dist
    /\ Expanding =>
          \A f \in epa.heap : At(epa.faces, NextFaceId.id).dist <= At(epa.faces, f.id).dist

(* C24: a Some returned by the expansion, from any of its four exits,     *)
(* takes its normal and witnesses from a face that is not flagged         *)
(* deleted: the normal is a unit vector, never the zero vector.           *)
C24_ResultFaceNotDeleted ==
    (/\ epa.pc = "done"
     /\ epa.exit \in {"converged", "new_face", "cap", "exhausted"}
     /\ epa.result.kind = "Some") =>
        epa.result.normal # ZeroNormal

(* The call of closest_points is under way. *)
InCall == epa.pc \notin {"idle", "done"}
(* The step is a turn of the expansion that splits the face it popped. *)
Splits == Expanding /\ epa'.pc = "loop" /\ epa'.niter = epa.niter + 1
(* The faces of the step's first state are left as they were. *)
FacesKept ==
    /\ Len(epa'.faces) >= Len(epa.faces)
    /\ \A i \in 1..Len(epa.faces) : epa'.faces[i] = epa.faces[i]

(* C25 as stated: within one invocation faces are only appended, and a    *)
(* face is flagged deleted when it is degenerate or has been popped and   *)
(* split.                                                                  *)
C25_FaceLifecycle ==
    [][InCall =>
          /\ FacesKept
          /\ \A i \in 1..Len(epa'.faces) :
                epa'.faces[i].normal = ZeroNormal => epa'.faces[i].deleted
          /\ Splits => At(epa'.faces, NextFaceId.id).deleted]_vars

(* C25, amended: within one invocation faces are only appended and never  *)
(* changed, a face is flagged deleted exactly when it is degenerate, and  *)
(* a face that has been popped and split keeps its flag and is off the    *)
(* heap.                                                                   *)
C25_FaceLifecycleDegenerateOnly ==
    [][InCall =>
          /\ FacesKept
          /\ \A i \in 1..Len(epa'.faces) :
                epa'.faces[i].deleted <=> epa'.faces[i].normal = ZeroNormal
          /\ Splits =>
                /\ ~At(epa'.faces, NextFaceId.id).deleted
                /\ NextFaceId.id \notin HeapIds(epa')]_vars

C25_Witness ==
    /\ epa.pc = "loop"
    /\ epa.niter >= 2
    /\ \E i \in 1..Len(epa.faces) : epa.faces[i].deleted
    /\ ~At(epa.faces, epa.best_face_id.id).deleted
    /\ epa.best_face_id.id \notin HeapIds(epa)

(* C27: max_dist is RealMax before the first expansion and after each     *)
(* expansion the lesser of what it was and the new candidate_max_dist;    *)
(* best_face_id moves, to the face just expanded, only when the candidate *)
(* is strictly below max_dist, and is then a face that is not deleted;    *)
(* the convergence exit returns the witnesses and normal of that face.    *)
C27_BestFaceTracking ==
    [][epa.pc = "loop" =>
          /\ epa.queries = 0 => epa.max_dist = RealMax
          /\ Expanding =>
                /\ epa'.max_dist = MinOf(epa.max_dist, NextCandidate)
                /\ epa'.best_face_id =
                      IF NextCandidate < epa.max_dist THEN NextFaceId
                      ELSE epa.best_face_id
                /\ ~At(epa'.faces, epa'.best_face_id.id).deleted
                /\ epa'.exit = "converged" =>
                      epa'.result =
                          FaceResult(At(epa'.faces, epa'.best_face_id.id),
                                     epa'.vertices)
          /\ ~Expanding =>
                /\ epa'.max_dist = epa.max_dist
                /\ epa'.best_face_id = epa.best_face_id]_vars

C27_Witness ==
    /\ epa.pc = "done"
    /\ epa.exit = "converged"
    /\ epa.queries >= 3
    /\ epa.best_face_id.id < Len(epa.faces) - 3
    /\ epa.result = BestFaceResult(epa)

(* C28: no entry of the heap has neg_dist above eps_tol; a call in which  *)
(* FaceId::new refused a face returned None; and a seed face that was to  *)
(* be pushed with neg_dist above eps_tol ended the call at once, before   *)
(* any support point was asked for.                                        *)
C28_RefusedFaceEndsCall ==
    /\ \A f \in epa.heap : f.some /\ f.neg_dist <= gjk_eps_tol
    /\ epa.exit = "rejected" => epa.pc = "done" /\ epa.result = EPA_None
    /\ (epa.dim = 2 /\ Len(epa.seed) = 3 /\ \E i \in 1..3 : RefusedEdge(epa, i)) =>
          epa.exit = "rejected" /\ epa.queries = 0
    /\ (epa.dim = 1 /\ Len(epa.seed) = 2
          /\ \E i \in 1..2 : epa.faces[i].dist > gjk_eps_tol) =>
          epa.exit = "rejected" /\ epa.queries = 0

C28_Witness ==
    /\ epa.exit = "rejected"
    /\ epa.dim = 2
    /\ epa.heap # {}
    /\ RefusedEdge(epa, 3)

----------------------------------------------------------------------------
(* The ray cast on the Minkowski difference: minkowski_ray_cast, which    *)
(* cast_local_ray and directional_distance call (query/gjk/gjk.rs).       *)
(*                                                                         *)
(* As for closest_points the shapes are any support maps: the norm of the *)
(* projection and the support value of an iteration are inputs, counted   *)
(* in multiples of eps_tol, and so is what the clip of the ray on the     *)
(* support halfspace finds: the sign of dir . curr_ray.dir and the time   *)
(* t.  Times and the length of the ray's direction are whole numbers; a   *)
(* time of impact is the exact rational ltoi / ray_length.                 *)

(* The largest norm of a first projection of a ray cast. *)
RayMaxNorm == 5
(* The largest time the lower bound is advanced to. *)
MaxLtoi == 4
(* The finite max_time_of_impact of a cast. *)
MaxToi == 2

(* -ray.dir / ray_length, the first ldir. *)
RayDir == [axis |-> "ray", iter |-> 0]

RayNone == [kind |-> "None", toi |-> RZero, normal |-> NoDir]
RaySome(toi, normal) == [kind |-> "Some", toi |-> toi, normal |-> normal]

(* minkowski_ray_cast returns res. *)
RayReturn(r, res) == [r EXCEPT !.result = res, !.pc = "done"]

(* Some((ltoi / ray_length, ldir)) *)
RayHit(r) == RayReturn(r, RaySome(Rat(r.ltoi, r.ray_length), r.ldir))

(* ltoi / ray_length > max_time_of_impact, for whole max_time_of_impact   *)
(* and without the product the code avoids.                                *)
exceeds_max_toi(ltoi, ray_length, max_time_of_impact) ==
    \/ ltoi \div ray_length > max_time_of_impact
    \/ /\ ltoi \div ray_length = max_time_of_impact
       /\ ltoi % ray_length > 0

(* Lines 253-271: a direction of length zero, or the locals of the loop;  *)
(* n is the norm of the projection on the simplex reset to the first      *)
(* support point.                                                          *)
minkowski_ray_cast_entry(r, n) ==
    IF r.ray_length = 0 THEN RayReturn(r, RayNone)
    ELSE [r EXCEPT !.ltoi = 0, !.ldir = RayDir, !.proj = n, !.dim = 0,
                   !.max_bound = RealMax, !.niter = 0, !.last_chance = FALSE,
                   !.pc = "loop"]

(* The new lower bound as it would be without the test against            *)
(* max_time_of_impact.                                                      *)
new_lower_bound_unchecked(r, dir, t) ==
    [r EXCEPT !.ldir = dir, !.ltoi = @ + t, !.origin = @ + t,
              !.max_bound = RealMax, !.shifted = @ + t, !.last_chance = FALSE]

(* Lines 307-322: the new lower bound; the ray's origin moves by t along  *)
(* its direction and the simplex by as much against it.                    *)
new_lower_bound(r, dir, t) ==
    IF exceeds_max_toi(r.ltoi + t, r.ray_length, r.max_toi)
    THEN RayReturn([r EXCEPT !.ldir = dir, !.ltoi = @ + t], RayNone)
    ELSE [r EXCEPT !.ldir = dir, !.ltoi = @ + t, !.origin = @ + t,
                   !.max_bound = RealMax, !.shifted = @ + t,
                   !.last_chance = FALSE]

(* No time: ray_toi_with_halfspace returned None. *)
NoTime == -1

(* The clip as it would be if any positive t gave a new lower bound. *)
clip_any_sign(r, dir, sign, t) ==
    IF t # NoTime
    THEN IF t > 0 THEN new_lower_bound(r, dir, t) ELSE r
    ELSE IF sign = "pos" THEN RayReturn(r, RayNone) ELSE r

(* Lines 304-331: the clip of the ray on the support halfspace; sign is   *)
(* that of dir . curr_ray.dir: "neg" below 0, "pos" above eps_tol.        *)
clip(r, dir, sign, t) ==
    IF t # NoTime
    THEN IF sign = "neg" /\ t > 0 THEN new_lower_bound(r, dir, t) ELSE r
    ELSE IF sign = "pos" THEN RayReturn(r, RayNone) ELSE r

(* max_bound - min_bound <= _eps_rel * max_bound *)
ray_converged(max_bound, min_bound) ==
    max_bound # RealMax /\ converged(max_bound, min_bound)

(* Lines 333-369: the rest of an iteration after the clip. *)
after_clip(r, min_bound, n, d) ==
    IF r.pc = "done" THEN r
    ELSE IF r.last_chance THEN RayReturn(r, RayNone)
    ELSE IF ray_converged(r.max_bound, min_bound)
    THEN IF r.improved_fixed_point_support
         THEN RayHit(r)
         ELSE RayReturn(r, RayNone)
    ELSE With([r EXCEPT !.proj = n, !.dim = d],
              LAMBDA r1 :
            IF d = DIM
            THEN IF min_bound >= EpsTol THEN RayReturn(r1, RayNone)
                 ELSE RayHit(r1)
            ELSE IF r1.niter + 1 = MaxIter
            THEN RayReturn([r1 EXCEPT !.niter = @ + 1], RayNone)
            ELSE [r1 EXCEPT !.niter = @ + 1])

(* Lines 274-288: the direction and the upper bound of the iteration,     *)
(* and last_chance when the upper bound did not improve.                  *)
before_clip(r) ==
    [r EXCEPT !.dir = ProjDir(r.niter), !.max_bound = r.proj,
              !.last_chance = @ \/ r.proj >= r.max_bound]

(* One iteration of the loop of minkowski_ray_cast, lines 273-369. *)
minkowski_ray_cast_iter(r, sign, t, min_bound, n, d) ==
    IF ~(r.proj > EpsTol) THEN RayHit(r)
    ELSE With(before_clip(r), LAMBDA r1 :
            IF r1.last_chance /\ r1.ltoi > 0 THEN RayHit(r1)
            ELSE With(clip(r1, r1.dir, sign, t), LAMBDA r2 :
                    after_clip(r2, min_bound, n, d)))

(* A cast: the length of the ray's direction, max_time_of_impact (none    *)
(* for directional_distance), and the build.                               *)
RayInit ==
    /\ simplex = new
    /\ call = NoCall
    /\ isect = Idle
    /\ gjk = Idle
    /\ trav = Idle
    /\ epa = Idle
    /\ \E ray_length \in 0..2, max_toi \in {-1, 0, MaxToi, RealMax},
          feature \in BOOLEAN :
          ray = [pc |-> "entry", ray_length |-> ray_length, max_toi |-> max_toi,
                 improved_fixed_point_support |-> feature,
                 ltoi |-> 0, origin |-> 0, shifted |-> 0, ldir |-> NoDir,
                 dir |-> NoDir, proj |-> 0, dim |-> 0, max_bound |-> RealMax,
                 niter |-> 0, last_chance |-> FALSE,
                 result |-> [kind |-> "none", toi |-> RZero, normal |-> NoDir]]

(* The norms a first projection is given. *)
RayEntryNorms == {0, 2, RayMaxNorm}
(* The times the clip finds. *)
ClipTimes(ltoi) == {NoTime} \cup {t \in 0..2 : ltoi + t <= MaxLtoi}
(* The support values given to an iteration whose projection has norm b. *)
RayMinBounds(b) == {0, 1, b}
(* The norms given to the projection that follows one of norm b. *)
RayNextNorms(b) == {0, b - 1, b}

(* The dimensions the simplex of dimension dim has after add_point and   *)
(* project_origin_and_reduce.                                             *)
RayDims(dim) == {d \in 0..DIM : d <= dim + 1}

RayEnter ==
    /\ ray.pc = "entry"
    /\ \E n \in RayEntryNorms : ray' = minkowski_ray_cast_entry(ray, n)
    /\ UNCHANGED <<simplex, call, gjk, trav, epa, isect>>

RayIterate ==
    /\ ray.pc = "loop"
    /\ \E sign \in {"neg", "zero", "pos"}, t \in ClipTimes(ray.ltoi),
          min_bound \in RayMinBounds(ray.proj), n \in RayNextNorms(ray.proj),
          d \in RayDims(ray.dim) :
          ray' = minkowski_ray_cast_iter(ray, sign, t, min_bound, n, d)
    /\ UNCHANGED <<simplex, call, gjk, trav, epa, isect>>

RayNext == RayEnter \/ RayIterate

SpecRay == RayInit /\ [][RayNext]_vars

(* C15: with max_time_of_impact >= 0 every Some((toi, n)) returned has    *)
(* toi = ltoi / ray_length and 0 <= toi <= max_time_of_impact; once an    *)
(* advancement has made ltoi / ray_length exceed max_time_of_impact the   *)
(* cast has returned None; a direction of length zero returns None.       *)
C15_ToiWithinBounds ==
    /\ (ray.result.kind = "Some" /\ ray.max_toi >= 0) =>
          /\ ray.result.toi = Rat(ray.ltoi, ray.ray_length)
          /\ RLe(RZero, ray.result.toi)
          /\ \/ ray.max_toi = RealMax
             \/ ray.result.toi[1] <= ray.max_toi * ray.result.toi[2]
    /\ (ray.pc # "entry" /\ ray.ray_length > 0 /\ ray.ltoi > 0
            /\ ray.max_toi # RealMax
            /\ ray.ltoi > ray.max_toi * ray.ray_length) =>
          ray.pc = "done" /\ ray.result = RayNone
    /\ (ray.pc # "entry" /\ ray.ray_length = 0) =>
          ray.pc = "done" /\ ray.result = RayNone

C15_Witness ==
    /\ ray.result.kind = "Some"
    /\ ray.max_toi = MaxToi
    /\ ray.ray_length = 2
    /\ ray.result.toi = Rat(3, 2)
    /\ ray.niter > 0

(* The iteration that starts in the state gets to its clipping step. *)
Clipping ==
    /\ ray.pc = "loop"
    /\ ray.proj > EpsTol
    /\ ~(before_clip(ray).last_chance /\ ray.ltoi > 0)
Signs == {"neg", "zero", "pos"}
(* The origin and the simplex of r2 are those of r1 moved by t. *)
Moved(r1, r2, t) == r2.origin = r1.origin + t /\ r2.shifted = r1.shifted + t
(* The step has returned None. *)
CastMissed(r) == r.pc = "done" /\ r.result = RayNone
(* P holds of what the clipping step makes of the state, for every sign   *)
(* of dir . curr_ray.dir and every time.                                   *)
EveryClip(P(_, _, _)) ==
    With(before_clip(ray), LAMBDA r1 :
        \A sign \in Signs, t \in ClipTimes(ray.ltoi) :
            With(clip(r1, r1.dir, sign, t), LAMBDA r2 : P(sign, t, r2)))

(* C29 as stated: ltoi starts at 0 and never decreases; the clipping step *)
(* changes it only for dir . curr_ray.dir < 0 and t > 0, and then ltoi    *)
(* grows by t, the origin and the simplex move by t, the upper bound is   *)
(* reset and last_chance cleared; for any other sign and time it leaves   *)
(* ltoi, the origin and the simplex alone, and no t with                  *)
(* dir . curr_ray.dir > eps_tol returns None.                             *)
C29_ClipFrame ==
    [][/\ ray.pc = "entry" => ray'.ltoi = 0
       /\ ray.pc = "loop" => ray'.ltoi >= ray.ltoi
       /\ Clipping =>
             EveryClip(LAMBDA sign, t, r2 :
                 IF sign = "neg" /\ t > 0
                 THEN /\ r2.ltoi = ray.ltoi + t
                      /\ Moved(ray, r2, t)
                      /\ r2.max_bound = RealMax
                      /\ ~r2.last_chance
                 ELSE /\ r2.ltoi = ray.ltoi
                      /\ Moved(ray, r2, 0)
                      /\ (t = NoTime /\ sign = "pos") => CastMissed(r2))]_vars

(* C29, amended: as stated, except that a new lower bound with which      *)
(* ltoi / ray_length exceeds max_time_of_impact returns None at once,     *)
(* with ltoi grown by t and the origin and the simplex where they were;   *)
(* and whenever a step of the loop changes ltoi without returning None    *)
(* the origin and the simplex have moved by as much, the upper bound is   *)
(* reset and last_chance is clear.                                         *)
C29_ClipFrameUnlessExceeded ==
    /\ [][/\ ray.pc = "entry" => ray'.ltoi = 0
       /\ ray.pc = "loop" =>
             /\ ray'.ltoi >= ray.ltoi
             /\ IF ray'.ltoi = ray.ltoi
                THEN Moved(ray, ray', 0)
                ELSE \/ CastMissed(ray') /\ Moved(ray, ray', 0)
                     \/ /\ Moved(ray, ray', ray'.ltoi - ray.ltoi)
                        /\ ray'.max_bound = RealMax
                        /\ ~ray'.last_chance]_vars
    /\ [](Clipping =>
             EveryClip(LAMBDA sign, t, r2 :
                 IF sign = "neg" /\ t > 0
                 THEN /\ r2.ltoi = ray.ltoi + t
                      /\ IF exceeds_max_toi(ray.ltoi + t, ray.ray_length,
                                            ray.max_toi)
                         THEN CastMissed(r2) /\ Moved(ray, r2, 0)
                         ELSE /\ Moved(ray, r2, t)
                              /\ r2.max_bound = RealMax
                              /\ ~r2.last_chance
                              /\ r2.pc = "loop"
                 ELSE /\ r2.ltoi = ray.ltoi
                      /\ Moved(ray, r2, 0)
                      /\ (t = NoTime /\ sign = "pos") => CastMissed(r2)))

C29_Witness ==
    /\ ray.pc = "loop"
    /\ ray.niter >= 2
    /\ ray.ltoi = MaxLtoi
    /\ ray.origin = ray.ltoi
    /\ ray.shifted = ray.ltoi
    /\ ray.max_bound = RealMax
    /\ ~ray.last_chance

----------------------------------------------------------------------------
(* The visitor collecting the intersections of a ray with the leaves of a  *)
(* bounding volume tree (query/visitors/ray_intersections_visitor.rs).     *)
(* Points and directions are pairs of integers here, the lanes of a SIMD   *)
(* value are numbered from 0, and the data of lane ii of a leaf is ii.     *)

SimdLanes == 0..(SIMD_WIDTH - 1)

(* SimdReal::splat, SimdRay::splat *)
splat(x) == [ii \in SimdLanes |-> x]

(* No data in a lane of a leaf. *)
NoData == -1
(* b: None at an internal node, Some(data) at a leaf. *)
NoLeaf == [some |-> FALSE, data |-> splat(NoData)]
Leaf(data) == [some |-> TRUE, data |-> data]

(* SimdVisitStatus *)
SimdVisitStatus_ExitEarly == [exit |-> TRUE, mask |-> splat(FALSE)]
SimdVisitStatus_MaybeContinue(mask) == [exit |-> FALSE, mask |-> mask]

(* RayIntersectionsVisitor::new; the callback is the set of data it        *)
(* answers false for.                                                       *)
RayIntersectionsVisitor_new(r, max_time_of_impact, callback) ==
    [simd_ray |-> splat(r),
     max_time_of_impact |-> splat(max_time_of_impact),
     callback |-> callback]

simd_min(a, b) == IF a <= b THEN a ELSE b
simd_max(a, b) == IF a >= b THEN a ELSE b

(* One axis of the slab test of a lane: the times at which the ray is      *)
(* between the two planes of the box, cut to tmin..tmax.  The components   *)
(* of a direction are -1, 0 or 1, so that x / d is x * d.                  *)
slab(box, r, i, tmin, tmax) ==
    IF r.dir[i] # 0
    THEN LET a == (box.mins[i] - r.origin[i]) * r.dir[i]
             b == (box.maxs[i] - r.origin[i]) * r.dir[i]
             near == simd_max(tmin, simd_min(a, b))
             far == simd_min(tmax, simd_max(a, b))
         IN  [hit |-> near <= far, tmin |-> near, tmax |-> far]
    ELSE [hit |-> box.mins[i] <= r.origin[i] /\ r.origin[i] <= box.maxs[i],
          tmin |-> tmin, tmax |-> tmax]

(* SimdAabb::cast_local_ray(..).0: the lanes whose box the ray hits at a   *)
(* time of 0..max_time_of_impact.                                          *)
cast_local_ray(bv, simd_ray, max_time_of_impact) ==
    [ii \in SimdLanes |->
        With(slab(bv[ii], simd_ray[ii], 1, 0, max_time_of_impact[ii]),
             LAMBDA x :
        With(slab(bv[ii], simd_ray[ii], 2, x.tmin, x.tmax),
             LAMBDA y : x.hit /\ y.hit))]

(* SimdBool::bitmask: bit ii is lane ii. *)
RECURSIVE bits_from(_, _)
bits_from(mask, ii) ==
    IF ii = SIMD_WIDTH THEN 0
    ELSE (IF mask[ii] THEN 2 ^ ii ELSE 0) + bits_from(mask, ii + 1)
bitmask(mask) == bits_from(mask, 0)

(* The bit test as it would be with the lanes numbered from 1. *)
bit_is_set_from_one(bits, ii) == (bits \div (2 ^ (ii + 1))) % 2 # 0

(* (bitmask & (1 << ii)) != 0 *)
bit_is_set(bits, ii) == (bits \div (2 ^ ii)) % 2 # 0

(* Lines 48-56: the loop over the lanes of a leaf from lane ii on; called  *)
(* lists the lanes the callback was invoked for.                           *)
RECURSIVE visit_leaf(_, _, _, _, _)
visit_leaf(callback, bits, data, ii, called) ==
    IF ii = SIMD_WIDTH THEN [exit |-> FALSE, called |-> called]
    ELSE IF bit_is_set(bits, ii) /\ data[ii] # NoData
    THEN IF data[ii] \in callback
         THEN [exit |-> TRUE, called |-> Append(called, ii)]
         ELSE visit_leaf(callback, bits, data, ii + 1, Append(called, ii))
    ELSE visit_leaf(callback, bits, data, ii + 1, called)

(* RayIntersectionsVisitor::visit *)
RayIntersectionsVisitor_visit(v, bv, b) ==
    With(cast_local_ray(bv, v.simd_ray, v.max_time_of_impact), LAMBDA mask :
        IF b.some
        THEN With(visit_leaf(v.callback, bitmask(mask), b.data, 0, <<>>),
                  LAMBDA loop :
                IF loop.exit
                THEN [status |-> SimdVisitStatus_ExitEarly,
                      called |-> loop.called]
                ELSE [status |-> SimdVisitStatus_MaybeContinue(mask),
                      called |-> loop.called])
        ELSE [status |-> SimdVisitStatus_MaybeContinue(mask), called |-> <<>>])

(* The largest max_time_of_impact of a visitor. *)
MaxVisitToi == 3
(* The rays, all from the origin, the boxes of a node and the callbacks. *)
VisitDirs == {<<1, 0>>, <<0, 1>>, <<1, 1>>, <<-1, 0>>}
VisitAabbs ==
    {[mins |-> <<2, -1>>, maxs |-> <<3, 1>>],
     [mins |-> <<-1, 2>>, maxs |-> <<1, 3>>],
     [mins |-> <<-1, -1>>, maxs |-> <<1, 1>>]}
VisitCallbacks == {{}, {0}, {2}, {1, 3}, {0, 1, 2, 3}}
NoAabb == [mins |-> <<0, 0>>, maxs |-> <<0, 0>>]
NoStatus == [exit |-> FALSE, mask |-> splat(FALSE)]

(* A visitor is made for a ray, a bound and a callback. *)
VisitInit ==
    /\ simplex = new
    /\ call = NoCall
    /\ gjk = Idle
    /\ trav = Idle
    /\ epa = Idle
    /\ ray = Idle
    /\ \E dir \in VisitDirs, max_time_of_impact \in 0..MaxVisitToi,
          callback \in VisitCallbacks :
          isect = [pc |-> "ready",
                   visitor |-> RayIntersectionsVisitor_new(
                                   [origin |-> <<0, 0>>, dir |-> dir],
                                   max_time_of_impact, callback),
                   bv |-> splat(NoAabb), b |-> NoLeaf,
                   status |-> NoStatus, called |-> <<>>]

(* The traversal calls visit on a node: an internal one, or a leaf with    *)
(* data in some of its lanes.                                              *)
Visit ==
    /\ isect.pc = "ready"
    /\ \E bv \in [SimdLanes -> VisitAabbs], present \in SUBSET SimdLanes,
          leaf \in BOOLEAN :
          /\ ~leaf => present = {}
          /\ \E b \in {IF leaf
                       THEN Leaf([ii \in SimdLanes |->
                                     IF ii \in present THEN ii ELSE NoData])
                       ELSE NoLeaf} :
             \E r \in {RayIntersectionsVisitor_visit(isect.visitor, bv, b)} :
                isect' = [isect EXCEPT !.pc = "visited", !.bv = bv, !.b = b,
                                       !.status = r.status,
                                       !.called = r.called]
    /\ UNCHANGED <<simplex, call, gjk, trav, epa, ray>>

(* The traversal takes the status and goes on to its next node, unless     *)
(* the visitor asked it to stop.                                           *)
VisitReturn ==
    /\ isect.pc = "visited"
    /\ ~isect.status.exit
    /\ isect' = [isect EXCEPT !.pc = "ready", !.bv = splat(NoAabb),
                              !.b = NoLeaf, !.status = NoStatus,
                              !.called = <<>>]
    /\ UNCHANGED <<simplex, call, gjk, trav, epa, ray>>

VisitNext == Visit \/ VisitReturn

SpecVisit == VisitInit /\ [][VisitNext]_vars

(* The ray of the visitor is in the box of lane ii at a time of            *)
(* 0..max_time_of_impact.                                                  *)
HitWithin(ii) ==
    LET r == isect.visitor.simd_ray[ii]
        box == isect.bv[ii]
    IN  \E t \in 0..isect.visitor.max_time_of_impact[ii] :
           \A i \in 1..2 :
              /\ box.mins[i] <= r.origin[i] + t * r.dir[i]
              /\ r.origin[i] + t * r.dir[i] <= box.maxs[i]
(* The lanes of the leaf that are hit and carry data. *)
HitLanes == {ii \in SimdLanes : HitWithin(ii) /\ isect.b.data[ii] # NoData}
(* The lanes of HitLanes whose callback answers false. *)
RefusedLanes == {ii \in HitLanes : isect.b.data[ii] \in isect.visitor.callback}

(* C31: at a leaf visit invokes the callback in lane order and exactly for *)
(* the lanes that are hit within max_time_of_impact and carry data, up to  *)
(* and including the first lane whose callback answers false, and then     *)
(* returns ExitEarly; with no such lane, and at every internal node, where *)
(* no callback is invoked, it returns MaybeContinue with the mask of the   *)
(* lanes that are hit.                                                     *)
C31_CallbacksInLaneOrder ==
    isect.pc = "visited" =>
        /\ \A k \in 1..(Len(isect.called) - 1) :
              isect.called[k] < isect.called[k + 1]
        /\ {isect.called[k] : k \in 1..Len(isect.called)} =
              IF isect.b.some
              THEN {ii \in HitLanes : \A jj \in RefusedLanes : ii <= jj}
              ELSE {}
        /\ isect.status =
              IF isect.b.some /\ RefusedLanes # {}
              THEN SimdVisitStatus_ExitEarly
              ELSE SimdVisitStatus_MaybeContinue(
                       [ii \in SimdLanes |-> HitWithin(ii)])

C31_Witness ==
    /\ isect.pc = "visited"
    /\ isect.b.some
    /\ isect.status = SimdVisitStatus_ExitEarly
    /\ Len(isect.called) = 2
    /\ \E ii \in HitLanes : ii > isect.called[2]
    /\ \E ii \in SimdLanes : ~HitWithin(ii) /\ isect.b.data[ii] # NoData

=============================================================================
